---- MODULE Spec2Model ----
(***************************************************************************)
(* A model of the enrollment resolution and simulated-completion engine    *)
(* (EthosSimulationService): the best-effort selector                      *)
(* listEnrollmentsBestEffort, the reconciliation loop waitForEnrollments,  *)
(* the quiz answering engine answerQuizByTargetPercent and the lesson      *)
(* completion driver completeLesson.                                       *)
(*                                                                         *)
(* Each component has its own state variable (a record whose fields carry  *)
(* the names of the locals of the function it models) and its own          *)
(* specification; a specification leaves the other components idle.        *)
(***************************************************************************)
EXTENDS Integers, Sequences, FiniteSets, TLC

VARIABLES
  sel,    \* one call of listEnrollmentsBestEffort: its arguments, the remote's answers, its result
  w,      \* one call of waitForEnrollments: locals, clock and call history
  quiz,   \* one call of answerQuizByTargetPercent / completeLesson and the remote it talks to
  rnd,    \* one evaluation of the desiredCorrect computation
  batch,  \* one POST /api/ethos/simulate request, from the per-user loop to the response
  twice, \* two calls of completeLesson in a row for one enrollment
  dbg,   \* one call of debugEnrollmentQueries: its arguments, the remote's answers, its entries
  draft, \* one call of generateDraft: the extract text and the lessons and quizzes made of it
  fan,  \* one call of _mapWithConcurrency: the shared index, the mapper calls in flight
  walk,  \* one paged walk: the pages requested, the bodies received, the output
  via,   \* one call of listEnrollmentsViaCourseEnrollments: its arguments, the remote's answers, its result
  memo,  \* the calls of getCourseEnrollmentUserId on one service instance and its cache
  emap,  \* the enrollmentMap loop of POST /api/ethos/simulate: the list, the index, the Map
  env,   \* one response body read by hydraMembers and by listHydra
  refx,  \* one reference read by _normalizeUuidFromAnything and by _extractIdFromRef
  pub,   \* one call of publishDraft: the lesson and quiz loops and the requests they send
  own,   \* one call of listEnrollmentsBestEffort against a remote that answers from one store
  kick,  \* one call of enrollInvitationsBestEffort: the listing, the jobs and the requests posted
  gen,   \* one call of generateQuizQuestions: the facts, the loop position and the question pushed last
  fx,    \* one call of fetchWithRetry: the attempt, the fetches made and the outcome
  rt     \* the cards toQuizCards builds from a quiz and what the answering engine reads from them

vars == <<sel, w, quiz, rnd, batch, twice, dbg, draft, fan, walk, via, memo, emap, env, refx, pub, own, kick, gen, fx, rt>>

\* What a step of one component leaves alone: the other components.
OtherThanSel == <<w, quiz, rnd, batch, twice, dbg, draft, fan, walk, via, memo, emap, env, refx, pub, own, kick, gen, fx, rt>>
OtherThanW == <<sel, quiz, rnd, batch, twice, dbg, draft, fan, walk, via, memo, emap, env, refx, pub, own, kick, gen, fx, rt>>
OtherThanQuiz == <<sel, w, rnd, batch, twice, dbg, draft, fan, walk, via, memo, emap, env, refx, pub, own, kick, gen, fx, rt>>
OtherThanRnd == <<sel, w, quiz, batch, twice, dbg, draft, fan, walk, via, memo, emap, env, refx, pub, own, kick, gen, fx, rt>>
OtherThanBatch == <<sel, w, quiz, rnd, twice, dbg, draft, fan, walk, via, memo, emap, env, refx, pub, own, kick, gen, fx, rt>>
OtherThanTwice == <<sel, w, quiz, rnd, batch, dbg, draft, fan, walk, via, memo, emap, env, refx, pub, own, kick, gen, fx, rt>>
OtherThanDbg == <<sel, w, quiz, rnd, batch, twice, draft, fan, walk, via, memo, emap, env, refx, pub, own, kick, gen, fx, rt>>
OtherThanDraft == <<sel, w, quiz, rnd, batch, twice, dbg, fan, walk, via, memo, emap, env, refx, pub, own, kick, gen, fx, rt>>
OtherThanPool == <<sel, w, quiz, rnd, batch, twice, dbg, draft, walk, via, memo, emap, env, refx, pub, own, kick, gen, fx, rt>>
OtherThanWalk == <<sel, w, quiz, rnd, batch, twice, dbg, draft, fan, via, memo, emap, env, refx, pub, own, kick, gen, fx, rt>>
OtherThanVia == <<sel, w, quiz, rnd, batch, twice, dbg, draft, fan, walk, memo, emap, env, refx, pub, own, kick, gen, fx, rt>>
OtherThanMemo == <<sel, w, quiz, rnd, batch, twice, dbg, draft, fan, walk, via, emap, env, refx, pub, own, kick, gen, fx, rt>>
OtherThanEmap == <<sel, w, quiz, rnd, batch, twice, dbg, draft, fan, walk, via, memo, env, refx, pub, own, kick, gen, fx, rt>>
OtherThanEnv == <<sel, w, quiz, rnd, batch, twice, dbg, draft, fan, walk, via, memo, emap, refx, pub, own, kick, gen, fx, rt>>
OtherThanRef == <<sel, w, quiz, rnd, batch, twice, dbg, draft, fan, walk, via, memo, emap, env, pub, own, kick, gen, fx, rt>>
OtherThanPub == <<sel, w, quiz, rnd, batch, twice, dbg, draft, fan, walk, via, memo, emap, env, refx, own, kick, gen, fx, rt>>
OtherThanOwn == <<sel, w, quiz, rnd, batch, twice, dbg, draft, fan, walk, via, memo, emap, env, refx, pub, kick, gen, fx, rt>>
OtherThanKick == <<sel, w, quiz, rnd, batch, twice, dbg, draft, fan, walk, via, memo, emap, env, refx, pub, own, gen, fx, rt>>
OtherThanGen == <<sel, w, quiz, rnd, batch, twice, dbg, draft, fan, walk, via, memo, emap, env, refx, pub, own, kick, fx, rt>>
OtherThanFetch == <<sel, w, quiz, rnd, batch, twice, dbg, draft, fan, walk, via, memo, emap, env, refx, pub, own, kick, gen, rt>>
OtherThanRt == <<sel, w, quiz, rnd, batch, twice, dbg, draft, fan, walk, via, memo, emap, env, refx, pub, own, kick, gen, fx>>

(***************************************************************************)
(* Values shared by the components.                                        *)
(***************************************************************************)
Null == "null"          \* JavaScript null / undefined

\* JavaScript truthiness of an id-like value (null, undefined and "" are falsy).
Truthy(v) == v # Null /\ v # ""

Min(a, b) == IF a <= b THEN a ELSE b
Max(a, b) == IF a >= b THEN a ELSE b

\* An IRI is modelled by the list of its '/'-separated segments, e.g.
\* "/v1/course_enrollments/ce1" is <<"", "v1", "course_enrollments", "ce1">>; a
\* null or empty IRI is the empty list.
\* _extractIdFromIri: the last non-empty segment, or null.
_extractIdFromIri(iri) ==
  LET parts == SelectSeq(iri, LAMBDA s : s # "")
  IN IF Len(parts) > 0 THEN parts[Len(parts)] ELSE Null


(***************************************************************************)
(* References.  A JavaScript value that stands for a reference is          *)
(* [type, segs, id, atId]: `type` is its typeof ("null" for null and        *)
(* undefined), `segs` the '/'-separated segments of String(value), and `id`  *)
(* and `atId` the values of an object's `id` and `@id` properties (themselves *)
(* [type, segs]; an object held there has no `id` or `@id` of its own).      *)
(***************************************************************************)
NullVal == [type |-> "null", segs |-> <<>>]
StrVal(segs) == [type |-> "string", segs |-> segs]
NumVal == [type |-> "number", segs |-> <<"42">>]
BareObj == [type |-> "object", segs |-> <<"[object Object]">>]
Plain(s) == [type |-> s.type, segs |-> s.segs, id |-> NullVal, atId |-> NullVal]
ObjVal(id, atId) ==
  [type |-> "object", segs |-> <<"[object Object]">>, id |-> id, atId |-> atId]

\* !value: null, undefined and the empty string (numbers here are non-zero).
Falsy(v) == v.type = "null" \/ (v.type = "string" /\ v.segs = <<"">>)

\* String(value), the segments joined again.
RECURSIVE Join(_)
Join(segs) ==
  IF Len(segs) = 0 THEN ""
  ELSE IF Len(segs) = 1 THEN segs[1]
  ELSE segs[1] \o "/" \o Join(Tail(segs))

\* The UUID a segment holds, by the pattern
\* /[0-9a-f]{8}-[0-9a-f]{4}-[0-9a-f]{4}-[0-9a-f]{4}-[0-9a-f]{12}/i, or null.  "U1" and
\* "U2" stand for two UUIDs; no other segment used here holds one.
UuidIn(seg) == IF seg \in {"U1", "U2"} THEN seg ELSE Null

\* value.match(...)?.[0] on a string: the first UUID in it, or null.
FirstUuid(segs) ==
  LET hits == {i \in DOMAIN segs : UuidIn(segs[i]) # Null}
  IN IF hits = {} THEN Null
     ELSE UuidIn(segs[CHOOSE i \in hits : \A j \in hits : i <= j])

\* _normalizeUuidFromAnything on a truthy string: the first UUID in it; else, of a
\* string with a '/', the last non-empty segment; else the string.
NormalizeString(segs) ==
  IF FirstUuid(segs) # Null THEN FirstUuid(segs)
  ELSE IF Len(segs) > 1 THEN _extractIdFromIri(segs)
  ELSE segs[1]

\* _normalizeUuidFromAnything on the value of an `id` or `@id` property.
NormalizeProperty(s) ==
  IF Falsy(s) THEN Null
  ELSE IF s.type = "string" THEN NormalizeString(s.segs)
  ELSE Null

_normalizeUuidFromAnything(value) ==
  IF Falsy(value) THEN Null
  ELSE IF value.type = "string" THEN NormalizeString(value.segs)
  ELSE IF value.type = "object"
       THEN IF ~Falsy(value.id) THEN NormalizeProperty(value.id)
            ELSE IF ~Falsy(value.atId) THEN NormalizeProperty(value.atId)
            ELSE Null
  ELSE Null

_extractIdFromRef(ref) ==
  IF Falsy(ref) THEN Null
  ELSE IF ref.type = "string" THEN _extractIdFromIri(ref.segs)
  ELSE IF ref.type = "object"
       THEN IF ~Falsy(ref.id) THEN Join(ref.id.segs)
            ELSE IF ~Falsy(ref.atId) THEN _extractIdFromIri(ref.atId.segs)
            ELSE Null
  ELSE Null

(***************************************************************************)
(* The best-effort selector, listEnrollmentsBestEffort.                    *)
(*                                                                         *)
(* The outcome of an awaited remote call is [ok, v]: ok = FALSE is a       *)
(* rejected promise (transport fault, non-2xx), and v is the value the     *)
(* call resolved to otherwise.                                             *)
(***************************************************************************)
Resolved(v) == [ok |-> TRUE, v |-> v]
Rejected == [ok |-> FALSE, v |-> <<>>]

\* An entry of listEnrollmentsViaCourseEnrollments' `mapped` list (the value that
\* call resolves to is modelled by its `mapped` list alone).
Ref(u, li, e) == [userId |-> u, learningItemId |-> li, learningItemEnrollmentId |-> e]
\* A learning-item enrollment as _normalizeLearningItemEnrollment returns it.
Lie(id, li, ce) == [id |-> id, learningItemId |-> li, courseEnrollment |-> ce]
\* A course enrollment as listCourseEnrollmentsBestEffort returns it.
Ce(id, u) == [id |-> id, userId |-> u]

\* The local filter of the second strategy: keep the enrollments of a target item
\* whose course enrollment is one of the listed course enrollments, and map each
\* to {userId, learningItemId, learningItemEnrollmentId}.  ceIdToUserId is a Map
\* built from [id, userId] pairs: a later pair with the same id overwrites.
LocalFilter(courseEnrollments, all, learningItemIds) ==
  LET ces == SelectSeq(courseEnrollments, LAMBDA ce : Truthy(ce.id) /\ Truthy(ce.userId))
      ceIdSet == {ces[i].id : i \in DOMAIN ces}
      ceIdToUserId(id) ==
        LET k == CHOOSE i \in DOMAIN ces :
                   ces[i].id = id /\ \A j \in DOMAIN ces : ces[j].id = id => j <= i
        IN ces[k].userId
      itemSet == {learningItemIds[i] :
                    i \in {j \in DOMAIN learningItemIds : Truthy(learningItemIds[j])}}
      keep(e) == /\ Truthy(e.id)
                 /\ Truthy(e.learningItemId)
                 /\ e.learningItemId \in itemSet
                 /\ _extractIdFromIri(e.courseEnrollment) # Null
                 /\ _extractIdFromIri(e.courseEnrollment) \in ceIdSet
      kept == SelectSeq(all, keep)
  IN [i \in DOMAIN kept |->
        Ref(ceIdToUserId(_extractIdFromIri(kept[i].courseEnrollment)),
            kept[i].learningItemId, kept[i].id)]

\* The per-item loop: one listLearningItemEnrollmentsForSingleItem query per id of
\* learningItemIds (always an array here: the caller passes one), in order, the results concatenated.  A rejected query
\* rejects the loop at that id (the queries before it were made).
RECURSIVE PerItemLoop(_, _, _, _)
PerItemLoop(ids, single, i, combined) ==
  IF i > Len(ids) THEN [raised |-> FALSE, combined |-> combined, queries |-> Len(ids)]
  ELSE IF ~single[ids[i]].ok THEN [raised |-> TRUE, combined |-> <<>>, queries |-> i]
  ELSE PerItemLoop(ids, single, i + 1, combined \o single[ids[i]].v)

\* The part of the selector after the two course-based strategies: the bulk
\* filter, then the per-item filter.  Neither call is inside a try block.
\* Faulty variant of BulkThenPerItem: the per-item filter is tried before the
\* bulk filter.
BulkThenPerItemSwapped(learningItemIds, remote, attempted) ==
  LET a3 == Append(attempted, "per_learning_item")
      r == PerItemLoop(learningItemIds, remote.single, 1, <<>>)
  IN IF r.raised
       THEN [raised |-> TRUE, enrollments |-> <<>>, strategy |-> Null,
             attempted |-> a3, singleQueries |-> r.queries]
     ELSE IF Len(r.combined) > 0
       THEN [raised |-> FALSE, enrollments |-> r.combined, strategy |-> "per_learning_item",
             attempted |-> a3, singleQueries |-> r.queries]
     ELSE [raised |-> ~remote.bulk.ok, enrollments |-> remote.bulk.v,
           strategy |-> IF remote.bulk.ok THEN "bulk_filters" ELSE Null,
           attempted |-> Append(a3, "bulk_filters"), singleQueries |-> r.queries]

BulkThenPerItem(learningItemIds, remote, attempted) ==
  LET a3 == Append(attempted, "bulk_filters")
  IN IF ~remote.bulk.ok
       THEN [raised |-> TRUE, enrollments |-> <<>>, strategy |-> Null,
             attempted |-> a3, singleQueries |-> 0]
     ELSE IF Len(remote.bulk.v) > 0
       THEN [raised |-> FALSE, enrollments |-> remote.bulk.v, strategy |-> "bulk_filters",
             attempted |-> a3, singleQueries |-> 0]
     ELSE LET r == PerItemLoop(learningItemIds, remote.single, 1, <<>>)
          IN [raised |-> r.raised, enrollments |-> r.combined,
              strategy |-> IF r.raised THEN Null ELSE "per_learning_item",
              attempted |-> Append(a3, "per_learning_item"), singleQueries |-> r.queries]

\* The second strategy and what follows it.  A rejection of either listing is
\* caught and falls through to the bulk filter.
PagedThenRest(learningItemIds, courseId, remote, attempted) ==
  IF ~Truthy(courseId) THEN BulkThenPerItem(learningItemIds, remote, attempted)
  ELSE LET a2 == Append(attempted, "paged_unfiltered_local_filter")
           mapped == IF remote.courseEnrollments.ok /\ remote.all.ok
                       THEN LocalFilter(remote.courseEnrollments.v, remote.all.v, learningItemIds)
                       ELSE <<>>
       IN IF Len(mapped) > 0
            THEN [raised |-> FALSE, enrollments |-> mapped,
                  strategy |-> "paged_unfiltered_local_filter",
                  attempted |-> a2, singleQueries |-> 0]
          ELSE BulkThenPerItem(learningItemIds, remote, a2)

\* listEnrollmentsBestEffort({learningItemIds, userIds, courseId}) against a remote
\* whose answers to the strategies' calls are `remote`.  The result records, beside
\* the returned {enrollments, strategy}, whether the call raised, the strategies it
\* attempted in order and the number of per-item queries it issued.
\* Faulty variant of listEnrollmentsBestEffort: a non-empty bulk answer is
\* preferred to the course-enrollment traversal.
listEnrollmentsBestEffortBulkFirst(learningItemIds, courseId, remote) ==
  IF remote.bulk.ok /\ Len(remote.bulk.v) > 0
    THEN [raised |-> FALSE, enrollments |-> remote.bulk.v, strategy |-> "bulk_filters",
          attempted |-> <<"bulk_filters">>, singleQueries |-> 0]
  ELSE IF ~Truthy(courseId) THEN PagedThenRest(learningItemIds, courseId, remote, <<>>)
  ELSE IF remote.viaCourse.ok /\ Len(remote.viaCourse.v) > 0
    THEN [raised |-> FALSE, enrollments |-> remote.viaCourse.v,
          strategy |-> "via_course_enrollments",
          attempted |-> <<"via_course_enrollments">>, singleQueries |-> 0]
  ELSE PagedThenRest(learningItemIds, courseId, remote, <<"via_course_enrollments">>)

listEnrollmentsBestEffort(learningItemIds, courseId, remote) ==
  IF ~Truthy(courseId) THEN PagedThenRest(learningItemIds, courseId, remote, <<>>)
  ELSE IF remote.viaCourse.ok /\ Len(remote.viaCourse.v) > 0
    THEN [raised |-> FALSE, enrollments |-> remote.viaCourse.v,
          strategy |-> "via_course_enrollments",
          attempted |-> <<"via_course_enrollments">>, singleQueries |-> 0]
  ELSE PagedThenRest(learningItemIds, courseId, remote, <<"via_course_enrollments">>)

(***************************************************************************)
(* The remote's possible answers to the selector's calls.                  *)
(***************************************************************************)
CeIri == <<"", "v1", "course_enrollments", "ce1">>

ViaOutcomes ==
  {Rejected, Resolved(<<>>), Resolved(<<Ref("u1", "i1", "e1")>>),
   Resolved(<<Ref("u1", "i1", "e1"), Ref("u2", "i2", "e2")>>)}
CeOutcomes ==
  {Rejected, Resolved(<<>>), Resolved(<<Ce("ce1", "u1")>>),
   Resolved(<<Ce("ce1", "u1"), Ce("ce1", "u2")>>), Resolved(<<Ce("ce1", Null)>>)}
AllOutcomes ==
  {Rejected, Resolved(<<>>), Resolved(<<Lie("e3", "i1", CeIri)>>),
   Resolved(<<Lie("e3", "i9", CeIri), Lie("e4", "i2", CeIri)>>)}
BulkOutcomes == {Rejected, Resolved(<<>>), Resolved(<<Lie("e5", "i1", CeIri)>>)}
SingleOutcomes == {Rejected, Resolved(<<>>), Resolved(<<Lie("e6", "i1", CeIri)>>)}
ItemIds == {"i1", "i2"}
IdLists == {<<>>, <<"i1">>, <<"i1", "i2">>}
CourseIds == {Null, "c1"}

\* The per-item cap of the diagnostics: (learningItemIds || []).slice(0, 20)
PerItemCap == 20

\* A list of learning-item ids one longer than that cap, and the id lists the
\* selector and the diagnostics are called with.
LongIdList == [k \in 1..(PerItemCap + 1) |-> IF k % 2 = 1 THEN "i1" ELSE "i2"]
AllIdLists == IdLists \cup {LongIdList}

SelRemotes ==
  [viaCourse : ViaOutcomes, courseEnrollments : CeOutcomes, all : AllOutcomes,
   bulk : BulkOutcomes, single : [ItemIds -> SingleOutcomes]]

\* The answers drawn for each poll of the reconciliation loop: every outcome of
\* every strategy (rejected, empty, non-empty), the per-item query answering the
\* same for every id.
PollRemotes ==
  [viaCourse : {Rejected, Resolved(<<>>), Resolved(<<Ref("u1", "i1", "e1")>>)},
   courseEnrollments : {Rejected, Resolved(<<Ce("ce1", "u1")>>)},
   all : {Rejected, Resolved(<<>>), Resolved(<<Lie("e3", "i1", CeIri)>>)},
   bulk : BulkOutcomes,
   single : {[i \in ItemIds |-> o] : o \in SingleOutcomes}]

NoResult ==
  [raised |-> FALSE, enrollments |-> <<>>, strategy |-> Null, attempted |-> <<>>,
   singleQueries |-> 0]

(***************************************************************************)
(* One call of listEnrollmentsBestEffort.                                  *)
(***************************************************************************)
SelIdle ==
  [pc |-> "off", learningItemIds |-> <<>>, courseId |-> Null,
   remote |-> [viaCourse |-> Rejected, courseEnrollments |-> Rejected, all |-> Rejected,
               bulk |-> Rejected, single |-> [i \in ItemIds |-> Rejected]],
   result |-> NoResult]

SelInit ==
  sel \in [pc : {"call"}, learningItemIds : AllIdLists, courseId : CourseIds,
           remote : SelRemotes, result : {NoResult}]

SelCall ==
  /\ sel.pc = "call"
  /\ sel' = [sel EXCEPT !.pc = "done",
                        !.result = listEnrollmentsBestEffort(sel.learningItemIds,
                                                             sel.courseId, sel.remote)]
  /\ UNCHANGED OtherThanSel

(***************************************************************************)
(* The reconciliation loop, waitForEnrollments.                            *)
(*                                                                         *)
(* Time is in milliseconds.  An awaited call takes 0..MaxCallMs, and a     *)
(* sleep(pollMs) takes pollMs plus 0..MaxLateMs (a timer fires no earlier  *)
(* than asked).  The loop's steps are its await points.                    *)
(***************************************************************************)
MaxTimeoutMs == 4
MaxPollMs == 2
MaxCallMs == 1
MaxLateMs == 1

NoPoll == [res |-> "none", enrollments |-> <<>>]

WIdle ==
  [pc |-> "off", learningItemIds |-> <<>>, courseId |-> Null, timeoutMs |-> 0, pollMs |-> 1,
   start |-> 0, now |-> 0, last |-> <<>>, didEnrollKickoff |-> FALSE,
   phase |-> "POLLING", raised |-> FALSE, returned |-> <<>>,
   polls |-> 0, lastPollAt |-> 0, firstPoll |-> NoPoll, nonEmptyPolls |-> 0,
   failedPolls |-> 0, kicks |-> 0, failedKicks |-> 0, kickAfterPoll |-> 0, sleeps |-> 0,
   pollsAfterKick |-> 0, tick |-> [poll |-> 0, kick |-> 0, late |-> 0]]

\* The state on entry, after `start = Date.now(); last = []; didEnrollKickoff = false`.
WInit ==
  \E ids \in IdLists, c \in CourseIds, t \in -1..MaxTimeoutMs, p \in 1..MaxPollMs :
    w = [WIdle EXCEPT !.pc = "test", !.learningItemIds = ids, !.courseId = c,
                      !.timeoutMs = t, !.pollMs = p]

\* Faulty variant of LoopCond: an inclusive comparison.
LoopCondInclusive(now, start, timeoutMs) == now - start <= timeoutMs

\* while (Date.now() - start < timeoutMs)
LoopCond(now, start, timeoutMs) == now - start < timeoutMs

\* Faulty variant of PollAssign: the poll is not wrapped in try/catch.
PollAssignRethrows(last, r) ==
  IF r.raised THEN [raised |-> TRUE, last |-> last]
  ELSE [raised |-> FALSE, last |-> r.enrollments]

\* try { last = (await this.listEnrollmentsBestEffort(...)).enrollments } catch {}
\* `r` is the selector's outcome; a rejection is swallowed and `last` keeps its value.
PollAssign(last, r) ==
  IF r.raised THEN [raised |-> FALSE, last |-> last]
  ELSE [raised |-> FALSE, last |-> r.enrollments]

\* Faulty variant of Found: breaks only on more than one enrollment.
FoundNeedsSeveral(last) == Len(last) > 1

\* if (last.length) break
Found(last) == Len(last) > 0

\* Faulty variant of KickoffDue: the one-shot flag is not consulted.
KickoffDueIgnoresFlag(didEnrollKickoff, courseId) == Truthy(courseId)

\* if (!didEnrollKickoff && courseId)
KickoffDue(didEnrollKickoff, courseId) == ~didEnrollKickoff /\ Truthy(courseId)

\* Faulty variant of SleepMs: sleeps two intervals.
SleepMsTwice(pollMs, late) == 2 * pollMs + late

\* await sleep(pollMs)
SleepMs(pollMs, late) == pollMs + late

\* The loop condition: enter the body, or leave the loop and `return last`.
WaitTest ==
  /\ w.pc = "test"
  /\ IF LoopCond(w.now, w.start, w.timeoutMs)
       THEN w' = [w EXCEPT !.pc = "poll", !.tick = [poll |-> 0, kick |-> 0, late |-> 0]]
       ELSE w' = [w EXCEPT !.pc = "done", !.phase = "TIMED_OUT", !.returned = w.last]
  /\ UNCHANGED OtherThanW

\* One poll of the selector, then `if (last.length) break` and the kickoff test.
WaitPoll ==
  /\ w.pc = "poll"
  /\ \E remote \in PollRemotes, d \in 0..MaxCallMs :
       LET r == listEnrollmentsBestEffort(w.learningItemIds, w.courseId, remote)
           a == PollAssign(w.last, r)
           res == IF r.raised THEN "failed"
                  ELSE IF Len(r.enrollments) > 0 THEN "nonempty" ELSE "empty"
           seen == [w EXCEPT !.now = w.now + d,
                             !.polls = w.polls + 1,
                             !.lastPollAt = w.now - w.start,
                             !.firstPoll = IF w.polls = 0
                                             THEN [res |-> res, enrollments |-> r.enrollments]
                                             ELSE w.firstPoll,
                             !.nonEmptyPolls = w.nonEmptyPolls + (IF res = "nonempty" THEN 1 ELSE 0),
                             !.failedPolls = w.failedPolls + (IF res = "failed" THEN 1 ELSE 0),
                             !.pollsAfterKick = w.pollsAfterKick + (IF w.kicks > 0 THEN 1 ELSE 0),
                             !.tick = [w.tick EXCEPT !.poll = d],
                             !.last = a.last]
       IN IF a.raised
            THEN w' = [seen EXCEPT !.pc = "done", !.raised = TRUE]
          ELSE IF Found(a.last)
            THEN w' = [seen EXCEPT !.pc = "done", !.phase = "FOUND", !.returned = a.last]
          ELSE IF KickoffDue(w.didEnrollKickoff, w.courseId)
            THEN w' = [seen EXCEPT !.pc = "kick", !.didEnrollKickoff = TRUE,
                                   !.kicks = w.kicks + 1, !.kickAfterPoll = w.polls + 1]
          ELSE w' = [seen EXCEPT !.pc = "sleep"]
  /\ UNCHANGED OtherThanW

\* try { await this.enrollInvitationsBestEffort(...) } catch {}: the kickoff issued
\* by the poll step resolves or rejects; a rejection is swallowed.
WaitKickoff ==
  /\ w.pc = "kick"
  /\ \E ok \in BOOLEAN, d \in 0..MaxCallMs :
       LET fired == [w EXCEPT !.now = w.now + d,
                              !.failedKicks = w.failedKicks + (IF ok THEN 0 ELSE 1),
                              !.tick = [w.tick EXCEPT !.kick = d]]
       IN w' = [fired EXCEPT !.pc = "sleep"]
  /\ UNCHANGED OtherThanW

\* await sleep(pollMs), then back to the loop condition.
WaitSleep ==
  /\ w.pc = "sleep"
  /\ \E late \in 0..MaxLateMs :
       w' = [w EXCEPT !.pc = "test",
                      !.now = w.now + SleepMs(w.pollMs, late),
                      !.sleeps = w.sleeps + 1,
                      !.tick = [w.tick EXCEPT !.late = late]]
  /\ UNCHANGED OtherThanW

(***************************************************************************)
(* The desiredCorrect computation of answerQuizByTargetPercent:            *)
(*   clamp(Math.round((targetPercentCorrect / 100) * total), 0, total)     *)
(* JavaScript numbers are IEEE-754 doubles: the quotient and the product   *)
(* are each rounded to the nearest double (ties to even) before Math.round *)
(* sees them.  A positive double is modelled as [m, e] with value m * 2^e, *)
(* where the 53-bit significand m is held as five limbs in base 2^13,      *)
(* <<top, l1, l2, l3, l4>>, top = 1 being bit 52.                          *)
(***************************************************************************)
RECURSIVE Pow2(_)
Pow2(k) == IF k = 0 THEN 1 ELSE 2 * Pow2(k - 1)

LimbBase == Pow2(13)

\* The least k with a * 2^k >= d.
RECURSIVE ShiftFor(_, _, _)
ShiftFor(a, d, k) == IF a >= d THEN k ELSE ShiftFor(2 * a, d, k + 1)

\* The greatest s with 2^s <= t.
RECURSIVE Log2Floor(_, _)
Log2Floor(t, s) == IF t < 2 THEN s ELSE Log2Floor(t \div 2, s + 1)

\* Round the exact value m * 2^e plus a remainder that is below (-1), at (0) or
\* above (1) half a unit of m's last bit to the nearest double, ties to even.
RoundNearestEven(m, e, half) ==
  LET up == half > 0 \/ (half = 0 /\ m[5] % 2 = 1)
      s4 == m[5] + 1
      s3 == m[4] + s4 \div LimbBase
      s2 == m[3] + s3 \div LimbBase
      s1 == m[2] + s2 \div LimbBase
      s0 == m[1] + s1 \div LimbBase
  IN IF ~up THEN [m |-> m, e |-> e]
     ELSE IF s0 = 1
       THEN [m |-> <<1, s1 % LimbBase, s2 % LimbBase, s3 % LimbBase, s4 % LimbBase>>, e |-> e]
     ELSE [m |-> <<1, 0, 0, 0, 0>>, e |-> e + 1]

\* The double nearest to a / d, for integers 0 < a <= d < 2^17: long division, a
\* limb at a time.
DoubleDiv(a, d) ==
  LET k == ShiftFor(a, d, 0)
      r0 == a * Pow2(k) - d
      l1 == (r0 * LimbBase) \div d
      r1 == (r0 * LimbBase) % d
      l2 == (r1 * LimbBase) \div d
      r2 == (r1 * LimbBase) % d
      l3 == (r2 * LimbBase) \div d
      r3 == (r2 * LimbBase) % d
      l4 == (r3 * LimbBase) \div d
      r4 == (r3 * LimbBase) % d
      half == IF 2 * r4 > d THEN 1 ELSE IF 2 * r4 = d THEN 0 ELSE -1
  IN RoundNearestEven(<<1, l1, l2, l3, l4>>, -52 - k, half)

\* The double nearest to x * n, for a positive double x and an integer
\* 1 <= n < 2^12: the exact product, shifted right to 53 bits and rounded.
DoubleMul(x, n) ==
  LET t4 == x.m[5] * n
      t3 == x.m[4] * n + t4 \div LimbBase
      t2 == x.m[3] * n + t3 \div LimbBase
      t1 == x.m[2] * n + t2 \div LimbBase
      t0 == x.m[1] * n + t1 \div LimbBase
      p4 == t4 % LimbBase
      p3 == t3 % LimbBase
      p2 == t2 % LimbBase
      p1 == t1 % LimbBase
      s == Log2Floor(t0, 0)
      d == Pow2(s)
      up == LimbBase \div d
      dropped == p4 % d
      half == IF s = 0 THEN -1
              ELSE IF 2 * dropped > d THEN 1 ELSE IF 2 * dropped = d THEN 0 ELSE -1
  IN RoundNearestEven(<<t0 \div d,
                        p1 \div d + (t0 % d) * up,
                        p2 \div d + (p1 % d) * up,
                        p3 \div d + (p2 % d) * up,
                        p4 \div d + (p3 % d) * up>>, x.e + s, half)

\* Math.round of a positive double below 2^13: the nearest integer, a half going
\* up.  With t = -e the integer part is m >> t and the half bit is bit t-1 of m.
MathRound(x) ==
  LET t == -x.e
      high == x.m[1] * LimbBase + x.m[2]      \* m >> 39
  IN IF t > 53 THEN 0
     ELSE IF t = 53 THEN 1
     ELSE (high \div Pow2(t - 40) + 1) \div 2

\* function clamp(n, lo, hi) { return Math.max(lo, Math.min(hi, n)); }
clamp(n, lo, hi) == Max(lo, Min(hi, n))

\* Math.round((targetPercentCorrect / 100) * total), for an integer percentage in
\* 0..100 and total >= 1.
RoundedShare(targetPercentCorrect, total) ==
  IF targetPercentCorrect = 0 THEN 0
  ELSE MathRound(DoubleMul(DoubleDiv(targetPercentCorrect, 100), total))

DesiredCorrect(targetPercentCorrect, total) ==
  clamp(RoundedShare(targetPercentCorrect, total), 0, total)

\* One evaluation of the computation, for a percentage and a question count.
MaxTotal == 25

RndIdle == [pc |-> "off", targetPercentCorrect |-> 0, total |-> 1, desiredCorrect |-> 0]

RndInit ==
  rnd \in [pc : {"args"}, targetPercentCorrect : 0..100, total : 1..MaxTotal,
           desiredCorrect : {0}]

RndCompute ==
  /\ rnd.pc = "args"
  /\ rnd' = [rnd EXCEPT !.pc = "done",
                        !.desiredCorrect = DesiredCorrect(rnd.targetPercentCorrect, rnd.total)]
  /\ UNCHANGED OtherThanRnd

(***************************************************************************)
(* Card content.  A card's `json` field is null, an object, a string of    *)
(* JSON or a string that does not parse; what it holds is a templateType   *)
(* and a list of content blocks, a block being [type, options] and an      *)
(* option [id, isCorrect].                                                 *)
(***************************************************************************)
Option(id, isCorrect) == [id |-> id, isCorrect |-> isCorrect]
Block(type, options) == [type |-> type, options |-> options]
Json(form, templateType, contentBlocks) ==
  [form |-> form, templateType |-> templateType, contentBlocks |-> contentBlocks]

NullJson == [isNull |-> TRUE, templateType |-> Null, contentBlocks |-> <<>>]
NoOption == [id |-> Null, isCorrect |-> FALSE]

\* parseCardJson: null for a null field or a string that does not parse.
parseCardJson(maybeJson) ==
  IF maybeJson.form \in {"object", "string"}
    THEN [isNull |-> FALSE, templateType |-> maybeJson.templateType,
          contentBlocks |-> maybeJson.contentBlocks]
    ELSE NullJson

IsQuestionBlock(b) == b.type = "multipleChoice" \/ b.type = "trueFalse"

\* The option pickOptionIdFromCard chooses (NoOption when it returns null before
\* choosing): the first option of the wanted correctness, else the first option.
PickedOption(card, correct) ==
  LET blocks == parseCardJson(card.json).contentBlocks
      qs == SelectSeq(blocks, IsQuestionBlock)
      opts == IF Len(qs) > 0 THEN qs[1].options ELSE <<>>
      correctOpts == SelectSeq(opts, LAMBDA o : o.isCorrect)
      wrongOpts == SelectSeq(opts, LAMBDA o : ~o.isCorrect)
      pool == IF correct THEN correctOpts ELSE wrongOpts
  IN IF Len(opts) = 0 THEN NoOption
     ELSE IF Len(pool) > 0 THEN pool[1] ELSE opts[1]

\* pickOptionIdFromCard: `chosen?.id || null`
pickOptionIdFromCard(card, correct) ==
  LET chosen == PickedOption(card, correct)
  IN IF Truthy(chosen.id) THEN chosen.id ELSE Null

isQuestionCard(card) ==
  LET json == parseCardJson(card.json)
  IN (\E i \in DOMAIN json.contentBlocks : IsQuestionBlock(json.contentBlocks[i]))
     \/ json.templateType = "multipleChoice"

\* The remote's content definitions, by card id.
CardIds == {"qBoth", "qWrongOnly", "text", "tpl", "bad"}
CardDefs(cardId) ==
  CASE cardId = "qBoth" ->
         [json |-> Json("string", "multipleChoice",
                        <<Block("text", <<>>),
                          Block("multipleChoice", <<Option("o1", FALSE), Option("o2", TRUE)>>)>>)]
    [] cardId = "qWrongOnly" ->
         [json |-> Json("object", Null, <<Block("trueFalse", <<Option("o3", FALSE)>>)>>)]
    [] cardId = "text" -> [json |-> Json("object", "text", <<Block("text", <<>>)>>)]
    [] cardId = "tpl" -> [json |-> Json("string", "multipleChoice", <<>>)]
    [] OTHER -> [json |-> Json("invalid", Null, <<>>)]

(***************************************************************************)
(* The quiz answering engine, answerQuizByTargetPercent, and the lesson    *)
(* completion driver, completeLesson, against a remote whose every call    *)
(* resolves or rejects.  The steps are the await points.                   *)
(***************************************************************************)
MaxCards == 2
CardListAttempts == 10
ScoreAttempts == 10
Concurrency == 10

CeNames == <<"ce1", "ce2", "ce3", "ce4">>
EnrollmentIds == {Null, "", "e1"}
Percents == {0, 50, 100}

\* A card enrollment as getCardEnrollments returns it; cardId is null for a
\* reference that could not be hydrated.
CardEnrollment(id, cardId) == [id |-> id, cardId |-> cardId]

\* The non-empty listings the remote may answer getCardEnrollments with.
Listings ==
  UNION {{[i \in 1..n |-> CardEnrollment(CeNames[i], f[i])] : f \in [1..n -> CardIds \cup {Null}]}
         : n \in 1..MaxCards}

NoNumber == [num |-> FALSE, v |-> 0]
Num(v) == [num |-> TRUE, v |-> v]
\* The parent enrollment records the remote may answer with: score and
\* percentCorrect absent, zero, or settled.
EnrollmentRecords ==
  {[score |-> NoNumber, percentCorrect |-> NoNumber], [score |-> Num(0), percentCorrect |-> Num(0)],
   [score |-> Num(1), percentCorrect |-> NoNumber], [score |-> NoNumber, percentCorrect |-> Num(50)]}
NoRecord == [score |-> NoNumber, percentCorrect |-> NoNumber]

NoStats ==
  [totalQuestions |-> 0, desiredCorrect |-> 0, answered |-> 0, correctTargeted |-> 0,
   optionNotFound |-> 0]
NoCalls ==
  [list |-> 0, getCard |-> 0, patch |-> 0, cardComplete |-> 0, complete |-> 0, fetch |-> 0]

QuizIdle ==
  [pc |-> "off", op |-> "quiz", learningItemEnrollmentId |-> Null, targetPercentCorrect |-> 0,
   attempt |-> 0, cardEnrollments |-> <<>>, eligible |-> <<>>, idx |-> 0, inflight |-> {},
   questionEntries |-> <<>>, i |-> 0, stats |-> NoStats, finalEnrollment |-> NoRecord,
   status |-> "running", result |-> [ok |-> FALSE], calls |-> NoCalls, sleeps |-> 0,
   answers |-> <<>>, trace |-> <<>>, lastOk |-> TRUE]

QuizInit ==
  \E op \in {"quiz", "lesson"}, id \in EnrollmentIds, pct \in Percents :
    /\ op = "lesson" => pct = 0
    /\ quiz = [QuizIdle EXCEPT !.pc = "entry", !.op = op, !.learningItemEnrollmentId = id,
                               !.targetPercentCorrect = pct]

RemoteCalls(c) == c.list + c.getCard + c.patch + c.cardComplete + c.complete + c.fetch

\* Faulty variant of EnrollmentAbsent: only null is taken for absent.
EnrollmentAbsentOnlyNull(enrollmentId) == enrollmentId = Null

\* if (!enrollmentId) return { ok: false, error: ... }
EnrollmentAbsent(enrollmentId) == ~Truthy(enrollmentId)

NoEnrollmentResult(st) ==
  [ok |-> FALSE, error |-> "No learning item enrollment found",
   learningItemEnrollmentId |-> st.learningItemEnrollmentId, userId |-> "u1"]

\* Faulty variant of NoQuestionResult: the count of listed card enrollments is
\* taken after the eligibility filter.
NoQuestionResultEligibleOnly(st) ==
  [ok |-> FALSE,
   error |-> "No question card enrollments found (only non-question cards present)",
   learningItemEnrollmentId |-> st.learningItemEnrollmentId,
   meta |-> [cardEnrollments |-> Len(st.eligible), eligible |-> Len(st.eligible),
             questionCards |-> 0, nonQuestionCount |-> Len(st.eligible)]]

NoQuestionResult(st) ==
  [ok |-> FALSE,
   error |-> "No question card enrollments found (only non-question cards present)",
   learningItemEnrollmentId |-> st.learningItemEnrollmentId,
   meta |-> [cardEnrollments |-> Len(st.cardEnrollments), eligible |-> Len(st.eligible),
             questionCards |-> 0, nonQuestionCount |-> Len(st.eligible)]]

QuizOkResult(st) ==
  [ok |-> TRUE, learningItemEnrollmentId |-> st.learningItemEnrollmentId,
   finalEnrollment |-> st.finalEnrollment, meta |-> st.stats]

LessonOkResult(st) ==
  [ok |-> TRUE, learningItemEnrollmentId |-> st.learningItemEnrollmentId,
   finalEnrollment |-> st.finalEnrollment]

Return(st, result) == [st EXCEPT !.pc = "done", !.status = "returned", !.result = result]
Raise(st) == [st EXCEPT !.pc = "done", !.status = "raised"]

\* The answer loop up to its next await: an entry for which no option id is
\* found is counted and skipped; the loop stops at the PATCH of the next entry
\* that has one, or ends and goes on to mark the parent enrollment complete.
RECURSIVE AnswerLoop(_)
AnswerLoop(st) ==
  IF st.i > Len(st.questionEntries) THEN [st EXCEPT !.pc = "complete"]
  ELSE LET chooseCorrect == st.i - 1 < st.stats.desiredCorrect
           optionId == pickOptionIdFromCard(CardDefs(st.questionEntries[st.i].cardId),
                                            chooseCorrect)
       IN IF optionId = Null
            THEN AnswerLoop([st EXCEPT !.stats.optionNotFound = @ + 1, !.i = @ + 1])
            ELSE [st EXCEPT !.pc = "patch"]

\* After the classification fan-out: the no-question failure, or the answer plan
\* and the start of the answer loop.
AfterClassify(st) ==
  LET total == Len(st.questionEntries)
  IN IF total = 0 THEN Return(st, NoQuestionResult(st))
     ELSE AnswerLoop([st EXCEPT
            !.i = 1,
            !.stats = [NoStats EXCEPT
                         !.totalQuestions = total,
                         !.desiredCorrect = DesiredCorrect(st.targetPercentCorrect, total)]])

\* After the listing loop: filter the eligible card enrollments and start the
\* classification workers; each of Math.max(1, concurrency) workers takes the next
\* index and awaits getCard for it.
StartClassify(st) ==
  LET eligible == SelectSeq(st.cardEnrollments, LAMBDA ce : Truthy(ce.id) /\ Truthy(ce.cardId))
      started == Min(Len(eligible), Max(1, Concurrency))
      st1 == [st EXCEPT !.pc = "classify", !.eligible = eligible, !.inflight = 1..started,
                        !.idx = started + 1]
  IN IF Len(eligible) = 0 THEN AfterClassify(st1) ELSE st1

\* The entry guard shared by answerQuizByTargetPercent and completeLesson.
QuizEntry ==
  /\ quiz.pc = "entry"
  /\ quiz' = IF EnrollmentAbsent(quiz.learningItemEnrollmentId)
               THEN Return(quiz, NoEnrollmentResult(quiz))
             ELSE IF quiz.op = "quiz" THEN [quiz EXCEPT !.pc = "list"]
             ELSE [quiz EXCEPT !.pc = "lessonComplete"]
  /\ UNCHANGED OtherThanQuiz

\* for (attempt < 10) { cardEnrollments = await getCardEnrollments(); if (length) break; ... }
QuizList ==
  /\ quiz.pc = "list"
  /\ \E out \in {Rejected, Resolved(<<>>)} \cup {Resolved(l) : l \in Listings} :
       LET st == [quiz EXCEPT !.calls.list = @ + 1, !.cardEnrollments = out.v]
       IN quiz' = IF ~out.ok THEN Raise(st)
                  ELSE IF Len(out.v) > 0 THEN StartClassify(st)
                  ELSE [st EXCEPT !.pc = "listSleep"]
  /\ UNCHANGED OtherThanQuiz

\* Faulty variant of ListLoopOn: one listing more.
ListLoopOnOneMore(attempt) == attempt <= CardListAttempts

\* The test of the listing loop, `attempt < 10`.
ListLoopOn(attempt) == attempt < CardListAttempts

\* await sleep(500); attempt++
QuizListSleep ==
  /\ quiz.pc = "listSleep"
  /\ LET st == [quiz EXCEPT !.sleeps = @ + 1, !.attempt = @ + 1]
     IN quiz' = IF ListLoopOn(st.attempt) THEN [st EXCEPT !.pc = "list"]
                ELSE StartClassify(st)
  /\ UNCHANGED OtherThanQuiz

\* One getCard of the classification fan-out settles: a question card is pushed
\* onto questionEntries, a rejection is ignored; its worker takes the next index.
QuizGetCard ==
  /\ quiz.pc = "classify"
  /\ \E k \in quiz.inflight, ok \in BOOLEAN :
       LET ce == quiz.eligible[k]
           more == quiz.idx <= Len(quiz.eligible)
           st == [quiz EXCEPT
                    !.calls.getCard = @ + 1,
                    !.questionEntries = IF ok /\ isQuestionCard(CardDefs(ce.cardId))
                                          THEN Append(@, ce) ELSE @,
                    !.inflight = (@ \ {k}) \cup (IF more THEN {quiz.idx} ELSE {}),
                    !.idx = IF more THEN @ + 1 ELSE @]
       IN quiz' = IF st.inflight = {} THEN AfterClassify(st) ELSE st
  /\ UNCHANGED OtherThanQuiz

\* Faulty variant of Answered: every answer is counted as targeted correct.
AnsweredAllTargeted(stats, chooseCorrect) ==
  [stats EXCEPT !.answered = @ + 1, !.correctTargeted = @ + 1]

\* stats.answered++; if (chooseCorrect) stats.correctTargeted++
Answered(stats, chooseCorrect) ==
  [stats EXCEPT !.answered = @ + 1,
                !.correctTargeted = IF chooseCorrect THEN @ + 1 ELSE @]

\* await client.patch(card enrollment, {answer: [optionId], ...}); a rejection is
\* not caught.
QuizPatch ==
  /\ quiz.pc = "patch"
  /\ \E ok \in BOOLEAN :
       LET ce == quiz.questionEntries[quiz.i]
           chooseCorrect == quiz.i - 1 < quiz.stats.desiredCorrect
           chosen == PickedOption(CardDefs(ce.cardId), chooseCorrect)
           st == [quiz EXCEPT !.calls.patch = @ + 1,
                              !.trace = Append(@, [call |-> "patch", id |-> ce.id]),
                              !.lastOk = ok]
       IN quiz' = IF ~ok THEN Raise(st)
                  ELSE [st EXCEPT
                          !.pc = "cardComplete",
                          !.stats = Answered(@, chooseCorrect),
                          !.answers = Append(@, [ce |-> ce.id, optionId |-> chosen.id,
                                                 isCorrect |-> chosen.isCorrect,
                                                 chooseCorrect |-> chooseCorrect])]
  /\ UNCHANGED OtherThanQuiz

\* Faulty variant of CardCompleteSettled: a rejected completion call is not caught.
CardCompleteRethrown(st, ok) ==
  IF ok THEN AnswerLoop([st EXCEPT !.i = @ + 1]) ELSE Raise(st)

\* try { await client.post(card enrollment /complete) } catch {}: resolved or
\* rejected, on to the next entry.
CardCompleteSettled(st, ok) == AnswerLoop([st EXCEPT !.i = @ + 1])

QuizCardComplete ==
  /\ quiz.pc = "cardComplete"
  /\ \E ok \in BOOLEAN :
       quiz' = CardCompleteSettled(
                 [quiz EXCEPT
                    !.calls.cardComplete = @ + 1,
                    !.trace = Append(@, [call |-> "cardComplete",
                                         id |-> quiz.questionEntries[quiz.i].id]),
                    !.lastOk = ok],
                 ok)
  /\ UNCHANGED OtherThanQuiz

\* await client.post(learning item enrollment /complete); not caught.
QuizComplete ==
  /\ quiz.pc = "complete"
  /\ \E ok \in BOOLEAN :
       LET st == [quiz EXCEPT !.calls.complete = @ + 1,
                              !.trace = Append(@, [call |-> "complete",
                                                   id |-> quiz.learningItemEnrollmentId]),
                              !.lastOk = ok,
                              !.attempt = 0]
       IN quiz' = IF ok THEN [st EXCEPT !.pc = "fetch"] ELSE Raise(st)
  /\ UNCHANGED OtherThanQuiz

\* Faulty variant of Settled: any number, zero included, settles the score.
SettledByAnyNumber(e) == e.score.num \/ e.percentCorrect.num

\* typeof score === 'number' && score > 0, or the same of percentCorrect
Settled(e) == (e.score.num /\ e.score.v > 0) \/ (e.percentCorrect.num /\ e.percentCorrect.v > 0)

\* finalEnrollment = await getLearningItemEnrollment(), then the head of the score
\* loop: leave after ScoreAttempts iterations or on a settled score, else sleep.
QuizFetch ==
  /\ quiz.pc = "fetch"
  /\ \E out \in {Rejected} \cup {Resolved(e) : e \in EnrollmentRecords} :
       LET st == [quiz EXCEPT !.calls.fetch = @ + 1]
           got == [st EXCEPT !.finalEnrollment = out.v]
       IN quiz' = IF ~out.ok THEN Raise(st)
                  ELSE IF got.attempt < ScoreAttempts /\ ~Settled(out.v)
                    THEN [got EXCEPT !.pc = "scoreSleep"]
                  ELSE Return(got, QuizOkResult(got))
  /\ UNCHANGED OtherThanQuiz

\* await sleep(500), then the next fetch; attempt++ follows it.
QuizScoreSleep ==
  /\ quiz.pc = "scoreSleep"
  /\ quiz' = [quiz EXCEPT !.pc = "fetch", !.sleeps = @ + 1, !.attempt = @ + 1]
  /\ UNCHANGED OtherThanQuiz

\* completeLesson: await client.post(.../complete); not caught.
LessonComplete ==
  /\ quiz.pc = "lessonComplete"
  /\ \E ok \in BOOLEAN :
       LET st == [quiz EXCEPT !.calls.complete = @ + 1,
                              !.trace = Append(@, [call |-> "complete",
                                                   id |-> quiz.learningItemEnrollmentId]),
                              !.lastOk = ok]
       IN quiz' = IF ok THEN [st EXCEPT !.pc = "lessonFetch"] ELSE Raise(st)
  /\ UNCHANGED OtherThanQuiz

\* completeLesson: finalEnrollment = await client.get(...); return { ok: true, ... }
LessonFetch ==
  /\ quiz.pc = "lessonFetch"
  /\ \E out \in {Rejected} \cup {Resolved(e) : e \in EnrollmentRecords} :
       LET st == [quiz EXCEPT !.calls.fetch = @ + 1]
           got == [st EXCEPT !.finalEnrollment = out.v]
       IN quiz' = IF out.ok THEN Return(got, LessonOkResult(got)) ELSE Raise(st)
  /\ UNCHANGED OtherThanQuiz

(***************************************************************************)
(* POST /api/ethos/simulate, from the per-user loop on: for every simulated *)
(* user, completeLesson for each lesson flagged completed and               *)
(* answerQuizByTargetPercent for each quiz taken, then the response.  The   *)
(* whole handler body is inside try { ... } catch (e) { next(e) }.          *)
(***************************************************************************)
MaxUsers == 2
MaxLessons == 2
MaxQuizzes == 1

\* completeLesson as one call: the guard, POST .../complete, GET the enrollment.
\* `post` and `get` are the remote's answers; neither await is caught.
completeLesson(enrollmentId, post, get) ==
  LET st == [learningItemEnrollmentId |-> enrollmentId, finalEnrollment |-> get.v]
  IN IF EnrollmentAbsent(enrollmentId)
       THEN [raised |-> FALSE, result |-> NoEnrollmentResult(st), posts |-> 0, gets |-> 0]
     ELSE IF ~post.ok
       THEN [raised |-> TRUE, result |-> [ok |-> FALSE], posts |-> 1, gets |-> 0]
     ELSE IF ~get.ok
       THEN [raised |-> TRUE, result |-> [ok |-> FALSE], posts |-> 1, gets |-> 1]
     ELSE [raised |-> FALSE, result |-> LessonOkResult(st), posts |-> 1, gets |-> 1]

\* The ways one call of answerQuizByTargetPercent ends, by what the remote does:
\* a rejected listing, PATCH, parent completion or fetch rejects the call.
QuizRemotes == {"rejects", "noQuestions", "answers"}
answerQuizByTargetPercent(enrollmentId, remote) ==
  IF EnrollmentAbsent(enrollmentId) THEN [raised |-> FALSE, result |-> [ok |-> FALSE]]
  ELSE IF remote = "rejects" THEN [raised |-> TRUE, result |-> [ok |-> FALSE]]
  ELSE IF remote = "noQuestions" THEN [raised |-> FALSE, result |-> [ok |-> FALSE]]
  ELSE [raised |-> FALSE, result |-> [ok |-> TRUE]]

BatchIdle ==
  [pc |-> "off", users |-> 0, lessonIds |-> 0, quizIds |-> 0, u |-> 1, i |-> 1,
   completedLessons |-> <<>>, completedQuizzes |-> <<>>, enrollmentMisses |-> <<>>,
   perUserResults |-> <<>>, response |-> "none", rejected |-> 0, calls |-> 0]

\* const perUserResults = []; for (const u of sim.perUser) { ... }
BatchInit ==
  \E n \in 0..MaxUsers, nl \in 0..MaxLessons, nq \in 0..MaxQuizzes :
    batch = [BatchIdle EXCEPT !.pc = IF n = 0 THEN "respond" ELSE "lessons",
                              !.users = n, !.lessonIds = nl, !.quizIds = nq]

\* catch (e) { next(e) }: the error handler answers with the error.
BatchCatch(st) == [st EXCEPT !.pc = "done", !.response = "error", !.rejected = @ + 1]

\* One iteration of the lesson loop: skipped unless flagged completed, else
\* r = await completeLesson(...), a miss recorded when !r.ok.
BatchLesson ==
  /\ batch.pc = "lessons" /\ batch.i <= batch.lessonIds
  /\ \E shouldComplete \in BOOLEAN, enrollmentId \in {Null, "e1"},
        post \in {Rejected, Resolved(<<>>)},
        get \in {Rejected} \cup {Resolved(e) : e \in EnrollmentRecords} :
       LET r == completeLesson(enrollmentId, post, get)
           st == [batch EXCEPT !.calls = @ + 1]
       IN batch' =
            IF ~shouldComplete THEN [batch EXCEPT !.i = @ + 1]
            ELSE IF r.raised THEN BatchCatch(st)
            ELSE [st EXCEPT
                    !.i = @ + 1,
                    !.enrollmentMisses = IF ~r.result.ok
                                           THEN Append(@, [type |-> "lesson", item |-> batch.i])
                                           ELSE @,
                    !.completedLessons = Append(@, [ok |-> r.result.ok])]
  /\ UNCHANGED OtherThanBatch

\* The lesson loop ends; on to the quizzes of the same user.
BatchLessonsDone ==
  /\ batch.pc = "lessons" /\ batch.i > batch.lessonIds
  /\ batch' = [batch EXCEPT !.pc = "quizzes", !.i = 1]
  /\ UNCHANGED OtherThanBatch

\* One iteration of the quiz loop: skipped unless taken, else
\* r = await answerQuizByTargetPercent(...), a miss recorded when !r.ok.
BatchQuiz ==
  /\ batch.pc = "quizzes" /\ batch.i <= batch.quizIds
  /\ \E took \in BOOLEAN, enrollmentId \in {Null, "e1"}, remote \in QuizRemotes :
       LET r == answerQuizByTargetPercent(enrollmentId, remote)
           st == [batch EXCEPT !.calls = @ + 1]
       IN batch' =
            IF ~took THEN [batch EXCEPT !.i = @ + 1]
            ELSE IF r.raised THEN BatchCatch(st)
            ELSE [st EXCEPT
                    !.i = @ + 1,
                    !.enrollmentMisses = IF ~r.result.ok
                                           THEN Append(@, [type |-> "quiz", item |-> batch.i])
                                           ELSE @,
                    !.completedQuizzes = Append(@, [ok |-> r.result.ok])]
  /\ UNCHANGED OtherThanBatch

\* perUserResults.push({ userId, completedLessons, completedQuizzes, enrollmentMisses })
BatchUserDone ==
  /\ batch.pc = "quizzes" /\ batch.i > batch.quizIds
  /\ batch' = [batch EXCEPT
                 !.perUserResults = Append(@, [userId |-> batch.u,
                                               completedLessons |-> batch.completedLessons,
                                               completedQuizzes |-> batch.completedQuizzes,
                                               enrollmentMisses |-> batch.enrollmentMisses]),
                 !.completedLessons = <<>>, !.completedQuizzes = <<>>,
                 !.enrollmentMisses = <<>>,
                 !.u = @ + 1, !.i = 1,
                 !.pc = IF batch.u < batch.users THEN "lessons" ELSE "respond"]
  /\ UNCHANGED OtherThanBatch

\* res.json({ ok: true, ..., perUserResults })
BatchRespond ==
  /\ batch.pc = "respond"
  /\ batch' = [batch EXCEPT !.pc = "done", !.response = "json"]
  /\ UNCHANGED OtherThanBatch

(***************************************************************************)
(* A caller that calls completeLesson twice, one call after the other, for *)
(* the same enrollment.  The remote holds the enrollment's completion flag *)
(* and its record; it accepts or rejects each request.                     *)
(***************************************************************************)
TwiceIdle ==
  [pc |-> "off", learningItemEnrollmentId |-> Null, completed |-> FALSE, call |-> 1,
   records |-> <<>>, outcomes |-> <<>>]

TwiceInit ==
  \E id \in EnrollmentIds, done \in BOOLEAN :
    twice = [TwiceIdle EXCEPT !.pc = "call", !.learningItemEnrollmentId = id,
                              !.completed = done]

\* One call of completeLesson, start to end; `e` is the enrollment's record at
\* the remote when the call fetches it.
TwiceCall ==
  /\ twice.pc = "call"
  /\ \E post \in {Rejected, Resolved(<<>>)}, getOk \in BOOLEAN, e \in EnrollmentRecords :
       LET r == completeLesson(twice.learningItemEnrollmentId, post,
                               IF getOk THEN Resolved(e) ELSE Rejected)
       IN twice' = [twice EXCEPT
                      !.outcomes = Append(@, r),
                      !.records = Append(@, e),
                      !.completed = @ \/ (r.posts = 1 /\ post.ok),
                      !.call = @ + 1,
                      !.pc = IF twice.call = 2 THEN "done" ELSE "call"]
  /\ UNCHANGED OtherThanTwice

(***************************************************************************)
(* debugEnrollmentQueries: the diagnostics over the discovery strategies.  *)
(* Each strategy runs inside its own try/catch and pushes one entry onto   *)
(* `out`: its counts, or its error.                                        *)
(***************************************************************************)
RecentOutcomes == {Rejected, Resolved(<<>>), Resolved(<<Lie("e7", "i9", CeIri)>>)}
DbgRemotes ==
  [bulk : BulkOutcomes, single : [ItemIds -> SingleOutcomes], recent : RecentOutcomes,
   all : AllOutcomes, viaCourse : ViaOutcomes]

\* Faulty variant of DebugEntry: a failed strategy is reported as a zero count.
DebugEntryHidesError(strategy, ok, count) ==
  [strategy |-> strategy, error |-> FALSE, count |-> IF ok THEN count ELSE 0]

\* try { ...; out.push({ strategy, count }) } catch (e) { out.push({ strategy, error }) }
DebugEntry(strategy, ok, count) ==
  IF ok THEN [strategy |-> strategy, error |-> FALSE, count |-> count]
  ELSE [strategy |-> strategy, error |-> TRUE, count |-> 0]

debugEnrollmentQueries(learningItemIds, courseId, mode, remote) ==
  LET checked == SubSeq(learningItemIds, 1, Min(Len(learningItemIds), PerItemCap))
      b == PerItemLoop(checked, remote.single, 1, <<>>)
      itemSet == {learningItemIds[i] :
                    i \in {j \in DOMAIN learningItemIds : Truthy(learningItemIds[j])}}
      matchItems == Len(SelectSeq(remote.all.v,
                                  LAMBDA e : Truthy(e.learningItemId)
                                             /\ e.learningItemId \in itemSet))
      full == <<DebugEntry("bulk_filters", remote.bulk.ok, Len(remote.bulk.v)),
                DebugEntry("per_learning_item", ~b.raised, Len(b.combined)),
                DebugEntry("recent_unfiltered", remote.recent.ok, Len(remote.recent.v)),
                DebugEntry("paged_unfiltered_local_filter", remote.all.ok, matchItems)>>
              \o (IF Truthy(courseId)
                    THEN <<DebugEntry("via_course_enrollments", remote.viaCourse.ok,
                                      Len(remote.viaCourse.v))>>
                    ELSE <<>>)
  IN IF mode # "full"
       THEN [out |-> <<DebugEntry("recent_unfiltered", remote.recent.ok,
                                  Len(remote.recent.v))>>,
             singleQueries |-> 0]
       ELSE [out |-> full, singleQueries |-> b.queries]

DbgIdle ==
  [pc |-> "off", learningItemIds |-> <<>>, courseId |-> Null, mode |-> "full",
   remote |-> [bulk |-> Rejected, single |-> [i \in ItemIds |-> Rejected],
               recent |-> Rejected, all |-> Rejected, viaCourse |-> Rejected],
   out |-> <<>>, singleQueries |-> 0]

DbgInit ==
  dbg \in [pc : {"call"}, learningItemIds : AllIdLists, courseId : CourseIds,
           mode : {"full", "light"}, remote : DbgRemotes, out : {<<>>},
           singleQueries : {0}]

DbgCall ==
  /\ dbg.pc = "call"
  /\ LET r == debugEnrollmentQueries(dbg.learningItemIds, dbg.courseId, dbg.mode, dbg.remote)
     IN dbg' = [dbg EXCEPT !.pc = "done", !.out = r.out, !.singleQueries = r.singleQueries]
  /\ UNCHANGED OtherThanDbg

(***************************************************************************)
(* generateDraft: lessons and quizzes generated from an extract text.  The *)
(* text is a list of paragraphs, each of one sentence: "short" (under 60   *)
(* characters), "long" (60 or more, not definitional), "defA" / "defB" /   *)
(* "defC" (60 or more, one definitional sentence `X is <predicate>.` with  *)
(* predicate A, B or C).                                                   *)
(***************************************************************************)
MaxParagraphs == 5
MinCards == 5
MinQuestions == 5
ParagraphCap == 12
FactCap == 20
DistractorCount == 3

ParagraphKinds == {"short", "long", "defA", "defB", "defC"}
Texts == UNION {[1..n -> ParagraphKinds] : n \in 0..MaxParagraphs}
Counts == {0, 1, 2}

\* splitParagraphs: the paragraphs of at least 60 characters.
splitParagraphs(text) == SelectSeq(text, LAMBDA par : par # "short")

\* pickSentences: the first `max` sentences of the text.
pickSentences(text, max) == SubSeq(text, 1, Min(Len(text), max))

\* The chunk loop of generateLessonCards: one card per chunk of paragraphs, up
\* to minCards - 1 cards in all.
RECURSIVE ChunkLoop(_, _, _, _, _)
ChunkLoop(i, remaining, chunkSize, cards, minCards) ==
  IF i >= remaining THEN cards
  ELSE LET pushed == Append(cards, "concepts")
       IN IF Len(pushed) >= minCards - 1 THEN pushed
          ELSE ChunkLoop(i + chunkSize, remaining, chunkSize, pushed, minCards)

\* while (cards.length < minCards) cards.push(review card)
RECURSIVE PadTo(_, _, _)
PadTo(items, filler, min) ==
  IF Len(items) < min THEN PadTo(Append(items, filler), filler, min) ELSE items

\* Faulty variant of generateLessonCards: the review cards are not added.
generateLessonCardsUnpadded(summary, extractText, minCards) ==
  LET paragraphs == splitParagraphs(extractText)
      remaining == Min(Len(paragraphs), ParagraphCap)
      chunkSize == Max(1, remaining \div Max(1, minCards - 2))
      chunked == ChunkLoop(0, remaining, chunkSize, <<"overview">>, minCards)
  IN Append(chunked, "takeaways")

\* generateLessonCards: the cards by kind (overview, concepts, takeaways, review).
generateLessonCards(summary, extractText, minCards) ==
  LET paragraphs == splitParagraphs(extractText)
      remaining == Min(Len(paragraphs), ParagraphCap)
      chunkSize == Max(1, remaining \div Max(1, minCards - 2))
      chunked == ChunkLoop(0, remaining, chunkSize, <<"overview">>, minCards)
      cards == PadTo(Append(chunked, "takeaways"), "review", minCards)
  IN SubSeq(cards, 1, Max(minCards, Len(cards)))

\* The question loop of generateQuizQuestions: a fact gives a question when it
\* has three distractors (predicates other than its own); the loop stops at
\* minQuestions questions.
RECURSIVE QuestionLoop(_, _, _, _)
QuestionLoop(facts, k, questions, minQuestions) ==
  IF k > Len(facts) THEN questions
  ELSE LET others == SelectSeq(facts, LAMBDA f : f # facts[k])
           options == 1 + Min(Len(others), DistractorCount)
       IN IF options < DistractorCount + 1
            THEN QuestionLoop(facts, k + 1, questions, minQuestions)
          ELSE LET pushed == Append(questions, "fact")
               IN IF Len(pushed) >= minQuestions THEN pushed
                  ELSE QuestionLoop(facts, k + 1, pushed, minQuestions)

\* generateQuizQuestions: the questions by kind (fact, fallback).
generateQuizQuestions(extractText, minQuestions) ==
  LET sentences == pickSentences(extractText, 60)
      definitional == SelectSeq(sentences, LAMBDA sn : sn \in {"defA", "defB", "defC"})
      picked == SubSeq(definitional, 1, Min(Len(definitional), Max(minQuestions, 12)))
      facts == SubSeq(picked, 1, Min(Len(picked), FactCap))
      questions == PadTo(QuestionLoop(facts, 1, <<>>, minQuestions), "fallback", minQuestions)
  IN SubSeq(questions, 1, Min(Len(questions), minQuestions))

DraftIdle ==
  [pc |-> "off", extractText |-> <<>>, summary |-> FALSE, lessonsCount |-> 0,
   quizzesCount |-> 0, raised |-> FALSE, lessons |-> <<>>, quizzes |-> <<>>]

DraftInit ==
  draft \in [pc : {"call"}, extractText : Texts, summary : BOOLEAN, lessonsCount : Counts,
             quizzesCount : Counts, raised : {FALSE}, lessons : {<<>>}, quizzes : {<<>>}]

\* generateDraft: the three Wikipedia fetches (each throws on a failed request,
\* the last also on an empty extract), then the lessons and the quizzes.
DraftGenerate ==
  /\ draft.pc = "call"
  /\ \E fetched \in BOOLEAN :
       draft' =
         IF ~fetched \/ draft.extractText = <<>>
           THEN [draft EXCEPT !.pc = "done", !.raised = TRUE]
           ELSE [draft EXCEPT
                   !.pc = "done",
                   !.lessons = [i \in 1..Max(0, draft.lessonsCount) |->
                                  generateLessonCards(draft.summary, draft.extractText,
                                                      MinCards)],
                   !.quizzes = [i \in 1..Max(0, draft.quizzesCount) |->
                                  generateQuizQuestions(draft.extractText, MinQuestions)]]
  /\ UNCHANGED OtherThanDraft

(***************************************************************************)
(* _mapWithConcurrency(items, concurrency, mapper): Math.max(1, concurrency) *)
(* workers share the index `idx`; each takes the next index, awaits the      *)
(* mapper for that item and stores its result, until the items run out.     *)
(* Items are numbered from 1; `idx` counts the indices taken.               *)
(***************************************************************************)
MaxItems == 11
ConcurrencyArgs == {0, 1, Concurrency}

\* Faulty variant of WorkerCount: one worker per item.
WorkerCountPerItem(concurrency, items) == Max(1, items)

\* new Array(Math.max(1, concurrency))
WorkerCount(concurrency, items) == Max(1, concurrency)

\* Faulty variant of StoreAt: the result goes to the first free slot.
StoreAtFirstFree(results, current, value) ==
  [results EXCEPT ![CHOOSE i \in DOMAIN results :
                      results[i] = 0 /\ \A j \in DOMAIN results : results[j] = 0 => i <= j]
                    = value]

\* results[current] = await mapper(items[current], current)
StoreAt(results, current, value) == [results EXCEPT ![current] = value]

PoolIdle ==
  [pc |-> "off", items |-> 0, concurrency |-> 0, idx |-> 0, inflight |-> {},
   mapped |-> 0, workers |-> 0, rejected |-> FALSE, peak |-> 0,
   invoked |-> <<>>, results |-> <<>>, promise |-> "pending"]

PoolInit ==
  \E n \in 0..MaxItems, c \in ConcurrencyArgs :
    fan = [PoolIdle EXCEPT !.pc = "start", !.items = n, !.concurrency = c,
                           !.invoked = [k \in 1..n |-> 0],
                           !.results = [k \in 1..n |-> 0]]

\* The workers are created and each runs to its first await: it takes an index
\* and calls the mapper for it, or returns when the items have run out.
PoolSpawn ==
  /\ fan.pc = "start"
  /\ LET n == WorkerCount(fan.concurrency, fan.items)
         started == Min(n, fan.items)
     IN fan' = [fan EXCEPT !.pc = IF started = 0 THEN "done" ELSE "run",
                             !.idx = n, !.inflight = 1..started, !.workers = started,
                             !.peak = started,
                             !.invoked = [k \in 1..fan.items |-> IF k <= started THEN 1 ELSE 0],
                             !.promise = IF started = 0 THEN "resolved" ELSE "pending"]
  /\ UNCHANGED OtherThanPool

\* The mapper call of one item settles (the mapper of item k resolves to k; 0 is
\* an empty slot of `results`).  Resolved: its worker stores the result
\* and takes the next index.  Rejected: its worker ends and Promise.all rejects,
\* the other workers going on.
PoolSettle ==
  /\ fan.pc = "run"
  /\ \E k \in fan.inflight, ok \in BOOLEAN :
       LET more == ok /\ fan.idx < fan.items
           inflight == (fan.inflight \ {k}) \cup (IF more THEN {fan.idx + 1} ELSE {})
       IN fan' = [fan EXCEPT
                     !.inflight = inflight,
                     !.mapped = IF ok THEN @ + 1 ELSE @,
                     !.idx = IF ok THEN @ + 1 ELSE @,
                     !.workers = IF more THEN @ ELSE @ - 1,
                     !.rejected = @ \/ ~ok,
                     !.invoked = IF more THEN [@ EXCEPT ![fan.idx + 1] = @ + 1] ELSE @,
                     !.results = IF ok THEN StoreAt(@, k, k) ELSE @,
                     !.promise = IF ~ok THEN "rejected"
                                 ELSE IF inflight = {} /\ @ = "pending" THEN "resolved"
                                 ELSE @,
                     !.peak = Max(@, Cardinality(inflight)),
                     !.pc = IF inflight = {} THEN "done" ELSE "run"]
  /\ UNCHANGED OtherThanPool


(***************************************************************************)
(* Collection envelopes.  A response body is absent (null, undefined), an   *)
(* array, or an object; `hydra`, `member` and `flat[name]` are an object's  *)
(* 'hydra:member' and `member` properties and its flat named ones, each     *)
(* [isArray, items].                                                        *)
(***************************************************************************)
FlatNames ==
  <<"attributes", "learningGroups", "users", "userAttributes", "learningGroupAttributes">>
NoField == [isArray |-> FALSE, items |-> <<>>]
ArrayField(items) == [isArray |-> TRUE, items |-> items]
NoFlat == [n \in {FlatNames[i] : i \in DOMAIN FlatNames} |-> NoField]
AbsentBody ==
  [kind |-> "absent", items |-> <<>>, hydra |-> NoField, member |-> NoField, flat |-> NoFlat]
ArrayBody(items) == [AbsentBody EXCEPT !.kind = "array", !.items = items]
ObjectBody(hydra, member, flat) ==
  [kind |-> "object", items |-> <<>>, hydra |-> hydra, member |-> member, flat |-> flat]
HydraBody(items) == ObjectBody(ArrayField(items), NoField, NoFlat)
MemberBody(items) == ObjectBody(NoField, ArrayField(items), NoFlat)
FlatBody(name, items) ==
  ObjectBody(NoField, NoField, [NoFlat EXCEPT ![name] = ArrayField(items)])

hydraMembers(data) ==
  IF data.kind = "absent" THEN <<>>
  ELSE IF data.kind = "array" THEN data.items
  ELSE IF data.hydra.isArray THEN data.hydra.items
  ELSE IF data.member.isArray THEN data.member.items
  ELSE <<>>

\* The body checks of listHydra, after its GET resolved to `data`.
listHydra(data) ==
  IF data.kind = "absent" THEN <<>>
  ELSE IF data.kind = "array" THEN data.items
  ELSE IF data.hydra.isArray THEN data.hydra.items
  ELSE LET hits == {i \in DOMAIN FlatNames : data.flat[FlatNames[i]].isArray}
       IN IF hits = {} THEN <<>>
          ELSE data.flat[FlatNames[CHOOSE i \in hits : \A j \in hits : i <= j]].items

(***************************************************************************)
(* The paged walks: listLearningItemEnrollmentsAll ("all") and the fetchAll *)
(* of listCourseEnrollmentsBestEffort ("fetchAll").  A step is the walk up  *)
(* to its next await: the GET of a page, then the handling of its answer.   *)
(***************************************************************************)
MaxPageCount == 3
MaxPageSize == 2

\* A learning-item enrollment as the remote sends it: `id`, `@id` and
\* `learningItemId` are references, `courseEnrollment` an IRI.
RawLie(id, atId, li) ==
  [id |-> id, atId |-> atId, learningItemId |-> li, courseEnrollment |-> CeIri]

\* v ?? d on the canonical id of a reference: the id as a string, or d.
OrElse(canonical, d) == IF canonical # Null THEN StrVal(<<canonical>>) ELSE d

\* _normalizeLearningItemEnrollment for an object e that carries the keys `id`,
\* `@id`, `learningItemId` and `courseEnrollment`.
_normalizeLearningItemEnrollment(e) ==
  LET id == _normalizeUuidFromAnything(Plain(IF e.id.type # "null" THEN e.id ELSE e.atId))
      learningItemId == _normalizeUuidFromAnything(Plain(e.learningItemId))
  IN [e EXCEPT !.id = OrElse(id, e.id),
               !.learningItemId = OrElse(learningItemId, e.learningItemId)]

WalkLie1 == RawLie(StrVal(<<"e1">>), NullVal, StrVal(<<"i1">>))
WalkLie2 ==
  RawLie(NullVal, StrVal(<<"", "v1", "learning_item_enrollments", "U1">>),
         StrVal(<<"", "v1", "learning_items", "i2">>))

\* The answers to a page request: rejected, or a body in one of the envelopes
\* hydraMembers reads, holding 0..MaxPageSize records (the remote may send
\* more records than itemsPerPage).
WalkOutcomes(walker) ==
  LET r1 == IF walker = "all" THEN WalkLie1 ELSE Ce("ce1", "u1")
      r2 == IF walker = "all" THEN WalkLie2 ELSE Ce("ce2", "u2")
  IN {Rejected, Resolved(AbsentBody), Resolved(ArrayBody(<<>>)),
      Resolved(HydraBody(<<r1>>)), Resolved(MemberBody(<<r2>>)),
      Resolved(ArrayBody(<<r1, r2>>))}

\* Faulty variant of WalkOn: one page more than maxPages.
WalkOnOneMore(page, maxPages) == page <= maxPages + 1

\* The loop test `page <= maxPages`.
WalkOn(page, maxPages) == page <= maxPages

\* What a walker makes of a page body: its members, normalized by the "all" walk.
WalkBatch(walker, data) ==
  LET members == hydraMembers(data)
  IN IF walker = "all"
     THEN [i \in DOMAIN members |-> _normalizeLearningItemEnrollment(members[i])]
     ELSE members

WalkIdle ==
  [pc |-> "off", walker |-> "all", itemsPerPage |-> 1, maxPages |-> 0, page |-> 1,
   out |-> <<>>, requested |-> <<>>, bodies |-> <<>>, raised |-> FALSE]

WalkInit ==
  \E walker \in {"all", "fetchAll"}, itemsPerPage \in 1..MaxPageSize,
     maxPages \in 0..MaxPageCount :
    walk = [WalkIdle EXCEPT !.pc = IF WalkOn(1, maxPages) THEN "get" ELSE "done",
                            !.walker = walker, !.itemsPerPage = itemsPerPage,
                            !.maxPages = maxPages]

\* The GET of page `page` is sent.
WalkGet ==
  /\ walk.pc = "get"
  /\ walk' = [walk EXCEPT !.pc = "await", !.requested = Append(@, walk.page)]
  /\ UNCHANGED OtherThanWalk

\* The GET settles.  A rejection rejects the walk; an empty batch ends it; fetchAll
\* also stops once it holds itemsPerPage * maxPages records.
WalkAnswer ==
  /\ walk.pc = "await"
  /\ \E o \in WalkOutcomes(walk.walker) :
       IF ~o.ok
       THEN walk' = [walk EXCEPT !.pc = "done", !.raised = TRUE]
       ELSE LET got == WalkBatch(walk.walker, o.v)
                out == walk.out \o got
                full == /\ walk.walker = "fetchAll"
                        /\ Len(out) >= walk.itemsPerPage * walk.maxPages
            IN walk' = [walk EXCEPT
                 !.bodies = Append(@, o.v),
                 !.out = out,
                 !.page = IF Len(got) = 0 \/ full THEN @ ELSE @ + 1,
                 !.pc = IF Len(got) = 0 \/ full
                           \/ ~WalkOn(walk.page + 1, walk.maxPages)
                        THEN "done" ELSE "get"]
  /\ UNCHANGED OtherThanWalk


(***************************************************************************)
(* The course-enrollment traversal, listEnrollmentsViaCourseEnrollments:    *)
(* the course enrollments are listed, the child enrollments of each are     *)
(* taken from the references it embeds or listed, one course enrollment     *)
(* after the other, and each child is then fetched for its learningItemId.  *)
(* The fetches of the children run in the worker pool, whose results are in *)
(* item order whatever the order of completion.                             *)
(***************************************************************************)
\* A course enrollment with the references it embeds (a collection body).
ViaCe(id, userId, embedded) ==
  [id |-> id, userId |-> userId, learningItemEnrollments |-> embedded]

\* A reference to a child enrollment: an object with an `@id`, or one with an `id`.
IriRef(e) == ObjVal(NullVal, StrVal(<<"", "v1", "learning_item_enrollments", e>>))
IdRef(e) == ObjVal(StrVal(<<e>>), NullVal)

ViaCeIds == {"ce1", "ce2", "ce3"}
ViaChildIds == {"e1", "e2", "e3"}

\* Faulty variant of listCourseEnrollmentsBestEffort: no client-side user filter.
listCourseEnrollmentsBestEffortAnyUser(courseId, userIds, filtered, unfiltered) ==
  LET first == IF Truthy(courseId) /\ filtered.ok THEN filtered.v ELSE <<>>
      fallBack == Len(first) = 0
  IN IF fallBack /\ ~unfiltered.ok
     THEN [raised |-> TRUE, enrollments |-> <<>>, usedCourseIdFilter |-> FALSE]
     ELSE [raised |-> FALSE, enrollments |-> IF fallBack THEN unfiltered.v ELSE first,
           usedCourseIdFilter |-> ~fallBack]

\* listCourseEnrollmentsBestEffort, the paged walks taken by their outcomes:
\* `filtered` is the walk with the courseId filter, `unfiltered` the one without.
listCourseEnrollmentsBestEffort(courseId, userIds, filtered, unfiltered) ==
  LET first == IF Truthy(courseId) /\ filtered.ok THEN filtered.v ELSE <<>>
      fallBack == Len(first) = 0
      enrollments == IF fallBack THEN unfiltered.v ELSE first
      userSet == {userIds[i] : i \in DOMAIN userIds}
  IN IF fallBack /\ ~unfiltered.ok
     THEN [raised |-> TRUE, enrollments |-> <<>>, usedCourseIdFilter |-> FALSE]
     ELSE [raised |-> FALSE,
           enrollments |->
             IF Len(userIds) > 0
             THEN SelectSeq(enrollments,
                            LAMBDA ce : Truthy(ce.userId) /\ ce.userId \in userSet)
             ELSE enrollments,
           usedCourseIdFilter |-> ~fallBack]

\* The rows pushed for the references `refs` of the course enrollment ce.
RowsOf(ce, refs) ==
  LET kept == SelectSeq(refs, LAMBDA ref : Truthy(_extractIdFromRef(ref)))
  IN [i \in DOMAIN kept |->
        [userId |-> ce.userId, courseEnrollmentId |-> ce.id,
         learningItemEnrollmentId |-> _extractIdFromRef(kept[i])]]

\* const li = await this.listLearningItemEnrollmentsForCourseEnrollment(...): the
\* call is not inside a try block.
ChildListing(o) == [raised |-> ~o.ok, li |-> IF o.ok THEN o.v ELSE <<>>]

\* The loop over the course enrollments, from the i-th on.
RECURSIVE CollectRefs(_, _, _, _)
CollectRefs(ces, i, enrollmentRefs, children) ==
  IF i > Len(ces) THEN [raised |-> FALSE, enrollmentRefs |-> enrollmentRefs]
  ELSE LET ce == ces[i]
           embedded == hydraMembers(ce.learningItemEnrollments)
           listing == ChildListing(children[ce.id])
       IN IF ~(Truthy(ce.id) /\ Truthy(ce.userId))
          THEN CollectRefs(ces, i + 1, enrollmentRefs, children)
          ELSE IF Len(embedded) > 0
          THEN CollectRefs(ces, i + 1, enrollmentRefs \o RowsOf(ce, embedded), children)
          ELSE IF listing.raised
          THEN [raised |-> TRUE, enrollmentRefs |-> <<>>]
          ELSE CollectRefs(ces, i + 1, enrollmentRefs \o RowsOf(ce, listing.li), children)

\* The mapper of the hydration fan-out: the child's learningItemId, or null when
\* the fetch fails or the id does not resolve.  A fetched enrollment is taken by
\* its learningItemId (a reference).
Hydrate(row, o) ==
  [userId |-> row.userId, learningItemEnrollmentId |-> row.learningItemEnrollmentId,
   learningItemId |-> IF o.ok THEN _normalizeUuidFromAnything(Plain(o.v)) ELSE Null,
   error |-> ~o.ok]

listEnrollmentsViaCourseEnrollments(courseId, userIds, learningItemIds, remote) ==
  LET listed == listCourseEnrollmentsBestEffort(courseId, userIds, remote.filtered,
                                                remote.unfiltered)
      collected == CollectRefs(listed.enrollments, 1, <<>>, remote.children)
      rows == collected.enrollmentRefs
      hydrated == [i \in DOMAIN rows |->
                     Hydrate(rows[i], remote.detail[rows[i].learningItemEnrollmentId])]
      keep(e) == /\ Truthy(e.learningItemEnrollmentId)
                 /\ Truthy(e.learningItemId)
                 /\ Truthy(e.userId)
                 /\ (Len(learningItemIds) > 0 =>
                       \E k \in DOMAIN learningItemIds : learningItemIds[k] = e.learningItemId)
      kept == SelectSeq(hydrated, keep)
  IN IF listed.raised \/ collected.raised
     THEN [raised |-> TRUE, courseEnrollmentsCount |-> 0, mapped |-> <<>>,
           usedCourseIdFilter |-> FALSE]
     ELSE [raised |-> FALSE, courseEnrollmentsCount |-> Len(listed.enrollments),
           mapped |-> [i \in DOMAIN kept |->
                         Ref(kept[i].userId, kept[i].learningItemId,
                             kept[i].learningItemEnrollmentId)],
           usedCourseIdFilter |-> listed.usedCourseIdFilter]

\* The remote's answers: to the two walks over the course enrollments, to the
\* listing of each course enrollment's children and to the fetch of each child.
ViaCeLists ==
  {<<>>,
   <<ViaCe("ce1", "u1", AbsentBody)>>,
   <<ViaCe("ce1", "u1", AbsentBody), ViaCe("ce2", "u2", AbsentBody)>>,
   <<ViaCe("ce1", "u1", AbsentBody), ViaCe("ce3", "u2", HydraBody(<<IriRef("e3")>>))>>,
   <<ViaCe("ce3", "u1", ArrayBody(<<IriRef("e3")>>)), ViaCe("ce2", Null, AbsentBody)>>}
ViaChildOutcomes(e) == {Rejected, Resolved(<<>>), Resolved(<<IdRef(e)>>)}
ViaDetailOutcomes ==
  {Rejected, Resolved(NullVal), Resolved(StrVal(<<"i1">>)),
   Resolved(StrVal(<<"", "v1", "learning_items", "i2">>))}
ViaRemotes ==
  {[filtered |-> f, unfiltered |-> u,
    children |-> [c \in ViaCeIds |->
                    IF c = "ce1" THEN c1 ELSE IF c = "ce2" THEN c2 ELSE Rejected],
    detail |-> [e \in ViaChildIds |->
                  IF e = "e1" THEN d1 ELSE IF e = "e2" THEN d2 ELSE d3]] :
     f \in {Rejected, Resolved(<<>>), Resolved(<<ViaCe("ce1", "u1", AbsentBody)>>)},
     u \in {Rejected} \cup {Resolved(l) : l \in ViaCeLists},
     c1 \in ViaChildOutcomes("e1"), c2 \in ViaChildOutcomes("e2"),
     d1 \in ViaDetailOutcomes, d2 \in ViaDetailOutcomes,
     d3 \in {Rejected, Resolved(StrVal(<<"i1">>))}}

NoViaResult ==
  [raised |-> FALSE, courseEnrollmentsCount |-> 0, mapped |-> <<>>,
   usedCourseIdFilter |-> FALSE]

ViaIdle ==
  [pc |-> "off", courseId |-> Null, userIds |-> <<>>, learningItemIds |-> <<>>,
   remote |-> [filtered |-> Rejected, unfiltered |-> Rejected,
               children |-> [c \in ViaCeIds |-> Rejected],
               detail |-> [e \in ViaChildIds |-> Rejected]],
   result |-> NoViaResult]

ViaInit ==
  \E courseId \in CourseIds, userIds \in {<<>>, <<"u1">>},
     learningItemIds \in {<<>>, <<"i1">>}, remote \in ViaRemotes :
    via = [ViaIdle EXCEPT !.pc = "call", !.courseId = courseId, !.userIds = userIds,
                          !.learningItemIds = learningItemIds, !.remote = remote]

ViaCall ==
  /\ via.pc = "call"
  /\ via' = [via EXCEPT !.pc = "done",
                        !.result = listEnrollmentsViaCourseEnrollments(
                                     via.courseId, via.userIds, via.learningItemIds,
                                     via.remote)]
  /\ UNCHANGED OtherThanVia


(***************************************************************************)
(* getCourseEnrollmentUserId and the Map _courseEnrollmentUserCache of one  *)
(* service instance.  A call runs to its await of the GET in one step and   *)
(* from the settling of the GET to its return in another; calls of the same *)
(* instance may be in flight together.                                      *)
(***************************************************************************)
MaxCalls == 3

MemoIris == {<<>>, CeIri, <<"", "v1", "course_enrollments", "ce2">>}
MemoIds == {"ce1", "ce2"}
\* The answers to GET /v1/course_enrollments/{id}: rejected, or a course enrollment
\* (taken by its userId, null when it has none).
MemoOutcomes == {[ok |-> FALSE, v |-> Null], Resolved(Null), Resolved("u1"), Resolved("u2")}

NoEntry == [has |-> FALSE, v |-> Null]
Entry(v) == [has |-> TRUE, v |-> v]
NoCall == [pc |-> "idle", id |-> Null, hit |-> FALSE, fetched |-> FALSE, result |-> Null]

MemoIdle ==
  [pc |-> "off", cache |-> [i \in MemoIds |-> NoEntry], first |-> [i \in MemoIds |-> NoEntry],
   calls |-> [c \in 1..MaxCalls |-> NoCall]]

MemoInit == memo = [MemoIdle EXCEPT !.pc = "on"]

\* The value the call stores and returns once its GET settled:
\* `ce?.userId || null`, or null from the catch block.
Fetched(o) == IF o.ok /\ Truthy(o.v) THEN o.v ELSE Null

\* A call begins: no id gives null, a cached id its entry, any other id a GET.
MemoCall(c) ==
  /\ memo.pc = "on"
  /\ memo.calls[c].pc = "idle"
  /\ \E iri \in MemoIris :
       LET courseEnrollmentId == _extractIdFromIri(iri)
       IN memo' = [memo EXCEPT !.calls[c] =
            IF ~Truthy(courseEnrollmentId)
            THEN [NoCall EXCEPT !.pc = "done"]
            ELSE IF memo.cache[courseEnrollmentId].has
            THEN [NoCall EXCEPT !.pc = "done", !.id = courseEnrollmentId, !.hit = TRUE,
                                !.result = memo.cache[courseEnrollmentId].v]
            ELSE [NoCall EXCEPT !.pc = "get", !.id = courseEnrollmentId, !.fetched = TRUE]]
  /\ UNCHANGED OtherThanMemo

\* The GET of a call settles: the user id, or null, is stored and returned.
\* `first` keeps the first value stored for each id.
MemoSettle(c) ==
  /\ memo.pc = "on"
  /\ memo.calls[c].pc = "get"
  /\ \E o \in MemoOutcomes :
       LET id == memo.calls[c].id
       IN memo' = [memo EXCEPT
            !.cache[id] = Entry(Fetched(o)),
            !.first[id] = IF @.has THEN @ ELSE Entry(Fetched(o)),
            !.calls[c] = [@ EXCEPT !.pc = "done", !.result = Fetched(o)]]
  /\ UNCHANGED OtherThanMemo


(***************************************************************************)
(* POST /api/ethos/simulate: the enrollmentMap built from the enrollments   *)
(* that waitForEnrollments returned, one enrollment per step.  A record of  *)
(* the list is {userId, learningItemId, learningItemEnrollmentId} (from the *)
(* course-based strategies) or {id, learningItemId, courseEnrollment} (from *)
(* the filter strategies); a key it lacks is null.  The calls of            *)
(* getCourseEnrollmentUserId are awaited one after the other, so what they  *)
(* return is a function of the course enrollment id (ceUser).               *)
(***************************************************************************)
MaxEnrollments == 3

Discovered(userId, learningItemId, learningItemEnrollmentId, id, courseEnrollment) ==
  [userId |-> userId, learningItemId |-> learningItemId,
   learningItemEnrollmentId |-> learningItemEnrollmentId, id |-> id,
   courseEnrollment |-> courseEnrollment]

Ce2Iri == <<"", "v1", "course_enrollments", "ce2">>

\* The records a discovered list is made of: item ids that are UUIDs ("U1", "U2")
\* and one that is not ("i1"), records without an id, an item or a course enrollment.
DiscoveredRecords ==
  {Discovered("u1", "U1", "e1", Null, <<>>), Discovered("u1", "U1", "e2", Null, <<>>),
   Discovered("u2", "U1", "e3", Null, <<>>), Discovered("u1", "i1", "e4", Null, <<>>),
   Discovered(Null, "U1", Null, "e5", CeIri), Discovered(Null, "U1", Null, "e6", Ce2Iri),
   Discovered(Null, "U1", Null, Null, CeIri), Discovered(Null, "U2", Null, "e7", <<>>),
   Discovered(Null, Null, Null, "e8", CeIri)}

\* extractUuid of the handler: the first UUID in String(value), or null.
extractUuid(value) == IF ~Truthy(value) THEN Null ELSE UuidIn(value)

\* getCourseEnrollmentUserId as the loop sees it.
UserOfCourseEnrollment(ceUser, courseEnrollment) ==
  LET courseEnrollmentId == _extractIdFromIri(courseEnrollment)
  IN IF ~Truthy(courseEnrollmentId) THEN Null ELSE ceUser[courseEnrollmentId]

\* Faulty variant of MapSet: a key that is present keeps its value.
MapSetIfAbsent(map, key, value) ==
  [k \in DOMAIN map \cup {key} |-> IF k \in DOMAIN map THEN map[k] ELSE value]

\* enrollmentMap.set(key, value)
MapSet(map, key, value) ==
  [k \in DOMAIN map \cup {key} |-> IF k = key THEN value ELSE map[k]]

\* `${userId}:${li}`
MapKey(userId, li) == userId \o ":" \o li

\* The empty Map.
EmptyMap == [k \in {} |-> Null]

EmapIdle == [pc |-> "off", enrollments |-> <<>>, ceUser |-> [c \in MemoIds |-> Null],
             i |-> 1, enrollmentMap |-> EmptyMap]

EmapInit ==
  \E n \in 0..MaxEnrollments :
    \E enrollments \in [1..n -> DiscoveredRecords],
       ceUser \in [MemoIds -> {Null, "u1", "u2"}] :
      emap = [EmapIdle EXCEPT !.pc = "loop", !.enrollments = enrollments,
                              !.ceUser = ceUser]

\* One turn of `for (const e of enrollments)`.
EmapStep ==
  /\ emap.pc = "loop"
  /\ emap.i <= Len(emap.enrollments)
  /\ LET e == emap.enrollments[emap.i]
         li == extractUuid(e.learningItemId)
         userIdForEnrollment == UserOfCourseEnrollment(emap.ceUser, e.courseEnrollment)
         next ==
           IF Truthy(e.userId) /\ Truthy(e.learningItemId)
              /\ Truthy(e.learningItemEnrollmentId)
           THEN IF Truthy(li)
                THEN MapSet(emap.enrollmentMap, MapKey(e.userId, li),
                            e.learningItemEnrollmentId)
                ELSE emap.enrollmentMap
           ELSE IF ~Truthy(li) \/ ~Truthy(e.id) THEN emap.enrollmentMap
           ELSE IF ~Truthy(userIdForEnrollment) THEN emap.enrollmentMap
           ELSE MapSet(emap.enrollmentMap, MapKey(userIdForEnrollment, li), e.id)
     IN emap' = [emap EXCEPT !.i = @ + 1, !.enrollmentMap = next]
  /\ UNCHANGED OtherThanEmap

\* The loop is over.
EmapDone ==
  /\ emap.pc = "loop"
  /\ emap.i > Len(emap.enrollments)
  /\ emap' = [emap EXCEPT !.pc = "done"]
  /\ UNCHANGED OtherThanEmap


(***************************************************************************)
(* One response body read by both collection readers: hydraMembers, and     *)
(* listHydra after its GET has resolved.                                    *)
(***************************************************************************)
MaxRecords == 2

EnvRecords == {"r1", "r2", "r3"}
EnvShapes == {"absent", "array", "hydra:member", "member"}
                \cup {FlatNames[i] : i \in DOMAIN FlatNames}

\* The body that wraps `records` in the envelope `shape`.
Wrapped(shape, records) ==
  CASE shape = "absent" -> AbsentBody
    [] shape = "array" -> ArrayBody(records)
    [] shape = "hydra:member" -> HydraBody(records)
    [] shape = "member" -> MemberBody(records)
    [] OTHER -> FlatBody(shape, records)

EnvIdle ==
  [pc |-> "off", shape |-> "absent", records |-> <<>>, members |-> <<>>, listed |-> <<>>]

EnvInit ==
  \E shape \in EnvShapes, n \in 0..MaxRecords :
    \E records \in [1..n -> EnvRecords] :
      env = [EnvIdle EXCEPT !.pc = "read", !.shape = shape,
                            !.records = IF shape = "absent" THEN <<>> ELSE records]

EnvRead ==
  /\ env.pc = "read"
  /\ env' = [env EXCEPT !.pc = "done",
                        !.members = hydraMembers(Wrapped(env.shape, env.records)),
                        !.listed = listHydra(Wrapped(env.shape, env.records))]
  /\ UNCHANGED OtherThanEnv


(***************************************************************************)
(* One reference read by both extractors, _normalizeUuidFromAnything and    *)
(* _extractIdFromRef.  The reference names an identifier in one of the      *)
(* shapes the remote uses, or it is a value that names none.                *)
(***************************************************************************)
RefIds == {"abc-123", "e1", "U1", "U2"}
RefShapes == {"raw", "id", "atId", "iri", "none"}

\* The paths an IRI may have before the identifier: a collection, an absolute
\* URL, a collection, and a collection under a parent resource named by a UUID.
RefPrefixes ==
  {<<"", "v1", "users">>, <<"https:", "", "host", "v1", "users">>,
   <<"", "v1", "learning_item_enrollments">>, <<"", "v1", "courses", "U2", "users">>}

\* The values that name no identifier: null, "", "/", a number, an object
\* without `id` and `@id`, an object whose `id` and `@id` are null.
Unresolvable ==
  {Plain(NullVal), Plain(StrVal(<<"">>)), Plain(StrVal(<<"", "">>)), Plain(NumVal),
   Plain(BareObj), ObjVal(NullVal, StrVal(<<"">>))}

\* The reference to `id` in the shape `shape`, its IRI made of `prefix` and `id`,
\* with a trailing '/' when `slash`.
Shaped(shape, id, prefix, slash) ==
  LET iri == StrVal(prefix \o <<id>> \o (IF slash THEN <<"">> ELSE <<>>))
  IN CASE shape = "raw" -> Plain(StrVal(<<id>>))
       [] shape = "id" -> ObjVal(StrVal(<<id>>), NullVal)
       [] shape = "atId" -> ObjVal(NullVal, iri)
       [] OTHER -> Plain(iri)

RefIdle ==
  [pc |-> "off", shape |-> "none", id |-> Null, value |-> Plain(NullVal),
   normalized |-> Null, extracted |-> Null, fromIri |-> Null]

RefInit ==
  \/ \E shape \in RefShapes \ {"none"}, id \in RefIds, prefix \in RefPrefixes,
        slash \in BOOLEAN :
       refx = [RefIdle EXCEPT !.pc = "read", !.shape = shape, !.id = id,
                              !.value = Shaped(shape, id, prefix, slash)]
  \/ \E value \in Unresolvable : refx = [RefIdle EXCEPT !.pc = "read", !.value = value]

RefRead ==
  /\ refx.pc = "read"
  /\ refx' = [refx EXCEPT !.pc = "done",
                          !.normalized = _normalizeUuidFromAnything(refx.value),
                          !.extracted = _extractIdFromRef(refx.value),
                          !.fromIri = IF refx.value.type = "string"
                                      THEN _extractIdFromIri(refx.value.segs)
                                      ELSE Null]
  /\ UNCHANGED OtherThanRef


(***************************************************************************)
(* publishDraft: for every lesson, then every quiz, of the draft it creates *)
(* the learning item, creates its cards and, when publishing is asked for,   *)
(* publishes it (publishLearningItem: GET the item, PATCH it unless it is    *)
(* published already).  Items are numbered 1..lessons+quizzes, the lessons   *)
(* first; `calls` is the list of requests sent to the remote.                *)
(***************************************************************************)
MaxDraftLessons == 2
MaxDraftQuizzes == 2

\* const shouldPublishItems = learningItemState === 'published' || autoPublishLearningItems
shouldPublishItems(learningItemState, autoPublishLearningItems) ==
  learningItemState = "published" \/ autoPublishLearningItems

PubCall(op, k, state, ok) == [op |-> op, k |-> k, state |-> state, ok |-> ok]

PubIdle ==
  [pc |-> "off", lessons |-> 0, quizzes |-> 0, learningItemState |-> "draft",
   autoPublishLearningItems |-> FALSE, k |-> 1, calls |-> <<>>, created |-> <<>>]

PubInit ==
  \E l \in 0..MaxDraftLessons, q \in 0..MaxDraftQuizzes,
     state \in {"draft", "published"}, auto \in BOOLEAN :
    pub = [PubIdle EXCEPT !.pc = "create", !.lessons = l, !.quizzes = q,
                          !.learningItemState = state,
                          !.autoPublishLearningItems = auto]

\* created.lessons.push / created.quizzes.push of the item's entry, and the next
\* turn of the loop.  `published` is "none" for publishResult = null, "skipped",
\* "patched", or "failed" for the { ok: false, ... } of the catch.
PubPush(st, published) ==
  [st EXCEPT !.pc = "create", !.k = @ + 1,
             !.created = Append(@, [k |-> st.k,
                                    type |-> IF st.k <= st.lessons THEN "lesson" ELSE "quiz",
                                    published |-> published])]

\* Faulty variant of PublishFailed: the rejection leaves publishDraft.
PublishFailedRethrown(st) == [st EXCEPT !.pc = "failed"]

\* catch (e) { publishResult = { ok: false, error: e?.message, details: e?.data } }
PublishFailed(st) == PubPush(st, "failed")

\* createLearningItem({ ..., state: 'draft', ... }): POST /v1/learning_items
PubCreate ==
  /\ pub.pc = "create"
  /\ pub.k <= pub.lessons + pub.quizzes
  /\ \E ok \in BOOLEAN :
       pub' = [pub EXCEPT !.pc = IF ok THEN "cards" ELSE "failed",
                          !.calls = Append(@, PubCall("createItem", pub.k, "draft", ok))]
  /\ UNCHANGED OtherThanPub

\* createCardsForLearningItem, then the test of shouldPublishItems.
PubCards ==
  /\ pub.pc = "cards"
  /\ \E ok \in BOOLEAN :
       LET st == [pub EXCEPT !.calls = Append(@, PubCall("createCards", pub.k, "none", ok))]
       IN pub' =
            IF ~ok THEN [st EXCEPT !.pc = "failed"]
            ELSE IF shouldPublishItems(pub.learningItemState, pub.autoPublishLearningItems)
              THEN [st EXCEPT !.pc = "get"]
            ELSE PubPush(st, "none")
  /\ UNCHANGED OtherThanPub

\* publishLearningItem: the GET of the item; a published item is skipped, and
\* a failed read is followed by the PATCH all the same.
PubGet ==
  /\ pub.pc = "get"
  /\ \E ok \in BOOLEAN, state \in {"draft", "published"} :
       LET st == [pub EXCEPT !.calls = Append(@, PubCall("getItem", pub.k,
                                                         IF ok THEN state ELSE "none", ok))]
       IN pub' = IF ok /\ state = "published" THEN PubPush(st, "skipped")
                 ELSE [st EXCEPT !.pc = "patch"]
  /\ UNCHANGED OtherThanPub

\* publishLearningItem: PATCH { state: 'published' }, inside publishDraft's try.
PubPatch ==
  /\ pub.pc = "patch"
  /\ \E ok \in BOOLEAN :
       LET st == [pub EXCEPT !.calls = Append(@, PubCall("patchItem", pub.k, "published", ok))]
       IN pub' = IF ok THEN PubPush(st, "patched") ELSE PublishFailed(st)
  /\ UNCHANGED OtherThanPub

\* Both loops are over: publishDraft goes on to the users.
PubItemsDone ==
  /\ pub.pc = "create"
  /\ pub.k > pub.lessons + pub.quizzes
  /\ pub' = [pub EXCEPT !.pc = "users"]
  /\ UNCHANGED OtherThanPub


(***************************************************************************)
(* listEnrollmentsBestEffort against a remote that answers every query      *)
(* from one store and honours the filters it is sent.  The store holds two  *)
(* course enrollments, ce1 of user u1 and ce2 of user u2, and some of three *)
(* learning-item enrollments; `works` tells which endpoints of the tenant   *)
(* work: the course-enrollment listing, the listing of a course             *)
(* enrollment's children, and the bulk filter (which returns nothing when   *)
(* it is not supported).                                                    *)
(***************************************************************************)
StoreCes == <<ViaCe("ce1", "u1", AbsentBody), ViaCe("ce2", "u2", AbsentBody)>>
StoreLies ==
  <<[id |-> "e1", learningItemId |-> "i1", ce |-> "ce1"],
    [id |-> "e2", learningItemId |-> "i1", ce |-> "ce2"],
    [id |-> "e3", learningItemId |-> "i2", ce |-> "ce2"]>>
StoreUserOf(ce) == IF ce = "ce1" THEN "u1" ELSE "u2"
UserIdLists == {<<>>, <<"u1">>, <<"u1", "u2">>}

\* The members of the sequence `ids`.
Members(ids) == {ids[i] : i \in DOMAIN ids}

\* GET /v1/learning_item_enrollments with the filters `items` and `users` (a
\* filter that is not sent is the empty set), as the normalised members.
StoreQuery(held, items, users) ==
  LET hit == SelectSeq(StoreLies,
                       LAMBDA x : /\ x.id \in held
                                  /\ (items # {} => x.learningItemId \in items)
                                  /\ (users # {} => StoreUserOf(x.ce) \in users))
  IN [i \in DOMAIN hit |->
        Lie(hit[i].id, hit[i].learningItemId,
            <<"", "v1", "course_enrollments", hit[i].ce>>)]

\* The store's answers to the calls of listEnrollmentsViaCourseEnrollments.
StoreViaRemote(held, works) ==
  LET listing == IF works.courseEnrollments THEN Resolved(StoreCes) ELSE Rejected
  IN [filtered |-> listing, unfiltered |-> listing,
      children |->
        [c \in ViaCeIds |->
           IF ~works.children THEN Rejected
           ELSE LET of == SelectSeq(StoreLies, LAMBDA x : x.id \in held /\ x.ce = c)
                IN Resolved([i \in DOMAIN of |-> IdRef(of[i].id)])],
      detail |->
        [e \in ViaChildIds |->
           LET x == CHOOSE y \in Members(StoreLies) : y.id = e
           IN Resolved(StrVal(<<x.learningItemId>>))]]

\* The store's answers to the calls of listEnrollmentsBestEffort.
StoreRemote(held, works, learningItemIds, userIds, courseId) ==
  LET viaRemote == StoreViaRemote(held, works)
      viaCourse == listEnrollmentsViaCourseEnrollments(courseId, userIds, learningItemIds,
                                                       viaRemote)
      listed == listCourseEnrollmentsBestEffort(courseId, userIds, viaRemote.filtered,
                                                viaRemote.unfiltered)
  IN [viaCourse |-> IF viaCourse.raised THEN Rejected ELSE Resolved(viaCourse.mapped),
      courseEnrollments |-> IF listed.raised THEN Rejected ELSE Resolved(listed.enrollments),
      all |-> Resolved(StoreQuery(held, {}, {})),
      bulk |-> IF works.bulk
                 THEN Resolved(StoreQuery(held, Members(learningItemIds), Members(userIds)))
                 ELSE Resolved(<<>>),
      single |-> [i \in ItemIds |-> Resolved(StoreQuery(held, {i}, {}))]]

OwnIdle ==
  [pc |-> "off", held |-> {}, learningItemIds |-> <<>>, userIds |-> <<>>, courseId |-> Null,
   works |-> [courseEnrollments |-> TRUE, children |-> TRUE, bulk |-> TRUE],
   result |-> NoResult]

OwnInit ==
  \E held \in SUBSET {"e1", "e2", "e3"}, ids \in IdLists, users \in UserIdLists,
     c \in CourseIds, works \in [courseEnrollments : BOOLEAN, children : BOOLEAN,
                                 bulk : BOOLEAN] :
    own = [OwnIdle EXCEPT !.pc = "call", !.held = held, !.learningItemIds = ids,
                          !.userIds = users, !.courseId = c, !.works = works]

OwnCall ==
  /\ own.pc = "call"
  /\ own' = [own EXCEPT
               !.pc = "done",
               !.result = listEnrollmentsBestEffort(
                            own.learningItemIds, own.courseId,
                            StoreRemote(own.held, own.works, own.learningItemIds,
                                        own.userIds, own.courseId))]
  /\ UNCHANGED OtherThanOwn


(***************************************************************************)
(* enrollInvitationsBestEffort: the course enrollments are listed, one job  *)
(* is made per invitation of a listed course enrollment, the jobs are       *)
(* de-duplicated by the key "invitationId:enrollUserId" and posted through  *)
(* _mapWithConcurrency(unique, 10, ...).  `sent` is the list of enroll      *)
(* requests posted, `walked` what the walk over the course enrollments      *)
(* returned before the user filter.                                         *)
(***************************************************************************)
KickCe(userId, invitations) == [userId |-> userId, invitations |-> invitations]

\* The walks the remote may answer with: a course enrollment whose invitation
\* appears in two representations, course enrollments of two users, one with
\* no invitation, one with no userId, one whose `invitations` is not an array.
KickWalks ==
  {<<>>,
   <<KickCe("u1", ArrayField(<<IdRef("inv1"), IriRef("inv1")>>))>>,
   <<KickCe("u1", ArrayField(<<IdRef("inv1")>>)), KickCe("u2", ArrayField(<<IdRef("inv2")>>))>>,
   <<KickCe("u2", ArrayField(<<IdRef("inv2"), IdRef("inv3")>>)), KickCe("u1", NoField),
     KickCe(Null, ArrayField(<<IdRef("inv1")>>))>>,
   <<KickCe("u1", ArrayField(<<IdRef("inv1"), ObjVal(NullVal, NullVal)>>)),
     KickCe("u1", ArrayField(<<>>)), KickCe("u1", ArrayField(<<IriRef("inv1")>>))>>}

\* The jobs of the course enrollments from the i-th on.
RECURSIVE InvitationJobs(_, _)
InvitationJobs(ces, i) ==
  IF i > Len(ces) THEN <<>>
  ELSE LET ce == ces[i]
           invs == IF ce.invitations.isArray THEN ce.invitations.items ELSE <<>>
           kept == SelectSeq(invs, LAMBDA inv : Truthy(_extractIdFromRef(inv)))
           jobs == [k \in DOMAIN kept |->
                      [invitationId |-> _extractIdFromRef(kept[k]),
                       enrollUserId |-> ce.userId]]
       IN (IF ~Truthy(ce.userId) \/ Len(invs) = 0 THEN <<>> ELSE jobs)
            \o InvitationJobs(ces, i + 1)

\* The de-duplication loop from the i-th job on.
RECURSIVE UniqueJobs(_, _, _, _)
UniqueJobs(jobs, i, seen, unique) ==
  IF i > Len(jobs) THEN unique
  ELSE LET key == MapKey(jobs[i].invitationId, jobs[i].enrollUserId)
       IN IF key \in seen THEN UniqueJobs(jobs, i + 1, seen, unique)
          ELSE UniqueJobs(jobs, i + 1, seen \cup {key}, Append(unique, jobs[i]))

KickIdle ==
  [pc |-> "off", courseId |-> Null, userIds |-> <<>>, walked |-> <<>>, unique |-> <<>>,
   idx |-> 0, inflight |-> {}, sent |-> <<>>, failed |-> 0, raised |-> FALSE,
   attempted |-> 0]

KickInit ==
  \E c \in CourseIds, users \in UserIdLists :
    kick = [KickIdle EXCEPT !.pc = "list", !.courseId = c, !.userIds = users]

\* The listing settles; the jobs are built and de-duplicated, and the workers
\* start: each takes an index and posts its enroll request, or returns.
KickList ==
  /\ kick.pc = "list"
  /\ \E filtered \in {Rejected} \cup {Resolved(l) : l \in KickWalks},
        unfiltered \in {Rejected} \cup {Resolved(l) : l \in KickWalks} :
       LET listed == listCourseEnrollmentsBestEffort(kick.courseId, kick.userIds,
                                                     filtered, unfiltered)
           unique == UniqueJobs(InvitationJobs(listed.enrollments, 1), 1, {}, <<>>)
           started == Min(WorkerCount(Concurrency, Len(unique)), Len(unique))
       IN kick' =
            IF listed.raised THEN [kick EXCEPT !.pc = "done", !.raised = TRUE]
            ELSE [kick EXCEPT
                    !.pc = IF started = 0 THEN "done" ELSE "post",
                    !.walked = IF listed.usedCourseIdFilter THEN filtered.v ELSE unfiltered.v,
                    !.unique = unique,
                    !.idx = WorkerCount(Concurrency, Len(unique)),
                    !.inflight = 1..started,
                    !.sent = SubSeq(unique, 1, started),
                    !.attempted = Len(unique)]
  /\ UNCHANGED OtherThanKick

\* One enroll request settles; a rejection is caught by the mapper, and the
\* worker takes the next index, if any.
KickSettle ==
  /\ kick.pc = "post"
  /\ \E k \in kick.inflight, ok \in BOOLEAN :
       LET more == kick.idx < Len(kick.unique)
           inflight == (kick.inflight \ {k}) \cup (IF more THEN {kick.idx + 1} ELSE {})
       IN kick' = [kick EXCEPT
                     !.inflight = inflight,
                     !.idx = @ + 1,
                     !.sent = IF more THEN Append(@, kick.unique[kick.idx + 1]) ELSE @,
                     !.failed = IF ok THEN @ ELSE @ + 1,
                     !.pc = IF inflight = {} THEN "done" ELSE "post"]
  /\ UNCHANGED OtherThanKick


(***************************************************************************)
(* generateQuizQuestions, question by question: the facts loop, then the    *)
(* fallback loop.  A fact is taken by its predicate; `last` is the question *)
(* pushed last and `count` is questions.length.  correctIndex is an index   *)
(* from 0, as in the code.                                                  *)
(***************************************************************************)
MaxFacts == 5
FactPredicates == <<"pa", "pb", "pc", "pd">>
FallbackOptions == <<"relates", "unrelated", "always the same", "never defined">>

\* shuffle(arr): every order of arr is a possible outcome of the Fisher-Yates loop.
shuffle(arr) == {[i \in DOMAIN arr |-> arr[p[i]]] : p \in Permutations(DOMAIN arr)}

\* options.indexOf(x), from 0; -1 when x is not an element.
indexOf(options, x) ==
  LET hits == {i \in DOMAIN options : options[i] = x}
  IN IF hits = {} THEN -1 ELSE (CHOOSE i \in hits : \A j \in hits : i <= j) - 1

Question(kind, options, correctIndex, truth) ==
  [kind |-> kind, options |-> options, correctIndex |-> correctIndex, truth |-> truth]

GenIdle ==
  [pc |-> "off", predicates |-> <<>>, minQuestions |-> 1, k |-> 1, count |-> 0,
   last |-> Question("none", <<>>, 0, "")]

GenInit ==
  \E n \in 0..MaxFacts, min \in {2, MinQuestions} :
    gen = [GenIdle EXCEPT !.pc = "facts", !.minQuestions = min,
                          !.predicates = [k \in 1..n |->
                                            FactPredicates[((k - 1) % Len(FactPredicates)) + 1]]]

\* One turn of the facts loop: the distractors, the options, the index of the
\* fact's predicate, and the question unless there are fewer than four options.
GenFact ==
  /\ gen.pc = "facts"
  /\ gen.k <= Len(gen.predicates) /\ gen.count < gen.minQuestions
  /\ LET predicate == gen.predicates[gen.k]
         others == SelectSeq(gen.predicates, LAMBDA p : p # predicate)
     IN \E shuffled \in shuffle(others) :
          LET distractors == SubSeq(shuffled, 1, Min(Len(shuffled), DistractorCount))
          IN \E options \in shuffle(<<predicate>> \o distractors) :
               LET correctIndex == indexOf(options, predicate)
               IN gen' =
                    IF Len(options) < DistractorCount + 1 \/ correctIndex < 0
                    THEN [gen EXCEPT !.k = @ + 1]
                    ELSE [gen EXCEPT !.k = @ + 1, !.count = @ + 1,
                                     !.last = Question("fact", options, correctIndex,
                                                       predicate)]
  /\ UNCHANGED OtherThanGen

\* One turn of the fallback loop: the four statements shuffled, correctIndex: 0.
GenFallback ==
  /\ gen.pc \in {"facts", "fallback"}
  /\ gen.pc = "facts" => gen.k > Len(gen.predicates)
  /\ gen.count < gen.minQuestions
  /\ \E options \in shuffle(FallbackOptions) :
       gen' = [gen EXCEPT !.pc = "fallback", !.count = @ + 1,
                          !.last = Question("fallback", options, 0, FallbackOptions[1])]
  /\ UNCHANGED OtherThanGen

\* return questions.slice(0, minQuestions)
GenReturn ==
  /\ gen.pc \in {"facts", "fallback"}
  /\ gen.count >= gen.minQuestions
  /\ gen' = [gen EXCEPT !.pc = "done"]
  /\ UNCHANGED OtherThanGen


(***************************************************************************)
(* fetchWithRetry(url, options, { retries = 3, baseDelayMs = 400 }): the    *)
(* steps are its await points, the fetch and the timer.  A fetch resolves   *)
(* to a response (taken by its status and its retry-after header) or        *)
(* rejects (network error).                                                 *)
(***************************************************************************)
MaxRetries == 3
DefaultRetries == 3
BaseDelayMs == 400

\* The statuses a response may have, and the retry-after headers: absent, a
\* number of seconds, an HTTP date.
FetchStatuses == {200, 404, 429, 503}
RetryAfterHeaders == {"", "2", "date"}

\* Number(res.headers.get('retry-after') || ''), in ms when it is finite:
\* Number('') is 0, Number of a date is NaN.
RetryAfterMs(header) == IF header = "" THEN 0 ELSE IF header = "2" THEN 2000 ELSE -1

\* const delay = Number.isFinite(retryAfter) ? retryAfter * 1000 : baseDelayMs * Math.pow(2, attempt)
RetryDelay(header, attempt) ==
  IF RetryAfterMs(header) >= 0 THEN RetryAfterMs(header) ELSE BaseDelayMs * Pow2(attempt)

\* Faulty variant of RetryOn: one attempt more.
RetryOnOneMore(attempt, retries) == attempt <= retries + 1

\* for (let attempt = 0; attempt <= retries; attempt++)
RetryOn(attempt, retries) == attempt <= retries

FetchIdle ==
  [pc |-> "off", retries |-> 0, attempt |-> 0, calls |-> 0, lastErr |-> FALSE,
   delay |-> 0, good |-> 0, status |-> 0, result |-> "none", callsAtReturn |-> 0]

FetchInit ==
  \E retries \in 0..MaxRetries : fx = [FetchIdle EXCEPT !.pc = "loop", !.retries = retries]

\* The loop test, and the fetch of one attempt settled: a response that is not
\* 429 or 503 is returned; a 429 or 503 and a network error lead to the timer.
FetchAttempt ==
  /\ fx.pc = "loop"
  /\ RetryOn(fx.attempt, fx.retries)
  /\ \/ \E status \in FetchStatuses, header \in RetryAfterHeaders :
          LET st == [fx EXCEPT !.calls = @ + 1, !.status = status]
          IN fx' = IF status \in {429, 503}
                     THEN [st EXCEPT !.pc = "timer", !.delay = RetryDelay(header, fx.attempt)]
                     ELSE [st EXCEPT !.pc = "done", !.result = "returned", !.good = @ + 1,
                                     !.callsAtReturn = fx.calls + 1]
     \/ fx' = [fx EXCEPT !.calls = @ + 1, !.status = 0, !.pc = "timer", !.lastErr = TRUE,
                         !.delay = BaseDelayMs * Pow2(fx.attempt)]
  /\ UNCHANGED OtherThanFetch

\* The timer fires: attempt++ and back to the loop test.
FetchTimer ==
  /\ fx.pc = "timer"
  /\ fx' = [fx EXCEPT !.pc = "loop", !.attempt = @ + 1]
  /\ UNCHANGED OtherThanFetch

\* throw lastErr || new Error('fetch failed')
FetchThrow ==
  /\ fx.pc = "loop"
  /\ ~RetryOn(fx.attempt, fx.retries)
  /\ fx' = [fx EXCEPT !.pc = "done", !.result = "raised"]
  /\ UNCHANGED OtherThanFetch


(***************************************************************************)
(* From publishing to answering: toQuizCards builds the cards of a quiz     *)
(* from its questions, and the answering engine reads each card with        *)
(* isQuestionCard and pickOptionIdFromCard.  A question is [question,       *)
(* options, correctIndex], its options taken by their number and            *)
(* correctIndex counted from 0; a card reaches the reader with its json as  *)
(* the object built or as the string of it.                                 *)
(***************************************************************************)
MaxOptions == 4
MaxQuizQuestions == 2

\* uuidv4(): an id no other option has.
Uuid(question, idx) == question \o "-" \o ToString(idx)

\* Faulty variant of multipleChoiceJson: the option after correctIndex is flagged.
multipleChoiceJsonOffByOne(question, options, correctIndex) ==
  [version |-> "1", templateType |-> "multipleChoice",
   contentBlocks |->
     <<Block("multipleChoice",
             [i \in DOMAIN options |-> Option(Uuid(question, i - 1), i - 1 = correctIndex + 1)])>>]

multipleChoiceJson(question, options, correctIndex) ==
  [version |-> "1", templateType |-> "multipleChoice",
   contentBlocks |->
     <<Block("multipleChoice",
             [i \in DOMAIN options |-> Option(Uuid(question, i - 1), i - 1 = correctIndex)])>>]

toQuizCards(questions) ==
  [i \in DOMAIN questions |->
     LET built == multipleChoiceJson(questions[i].question, questions[i].options,
                                     questions[i].correctIndex)
     IN [sequenceOrder |-> i, type |-> "knowledge", subType |-> "common",
         json |-> Json("object", built.templateType, built.contentBlocks)]]

\* The questions a quiz may hold: one to MaxOptions options and any correctIndex
\* from -1 to the number of options.
QuizQuestions ==
  UNION {[1..len -> {[options |-> [i \in 1..n |-> i], correctIndex |-> c] :
                       n \in 1..MaxOptions, c \in -1..MaxOptions}] :
           len \in 1..MaxQuizQuestions}

RtIdle == [pc |-> "off", questions |-> <<>>, cards |-> <<>>, reads |-> <<>>]

RtInit ==
  \E qs \in QuizQuestions :
    /\ \A i \in DOMAIN qs : qs[i].correctIndex <= Len(qs[i].options)
    /\ rt = [RtIdle EXCEPT
               !.pc = "build",
               !.questions = [i \in DOMAIN qs |->
                                [question |-> "Q" \o ToString(i), options |-> qs[i].options,
                                 correctIndex |-> qs[i].correctIndex]]]

\* The cards are built, and each reaches the reader as built or serialised.
RtBuild ==
  /\ rt.pc = "build"
  /\ \E form \in {"object", "string"} :
       rt' = [rt EXCEPT !.pc = "read",
                        !.cards = [i \in DOMAIN rt.questions |->
                                     [toQuizCards(rt.questions)[i] EXCEPT !.json.form = form]]]
  /\ UNCHANGED OtherThanRt

\* The answering engine classifies each card and picks its options.
RtRead ==
  /\ rt.pc = "read"
  /\ rt' = [rt EXCEPT
              !.pc = "done",
              !.reads = [i \in DOMAIN rt.cards |->
                           [isQuestion |-> isQuestionCard(rt.cards[i]),
                            correct |-> pickOptionIdFromCard(rt.cards[i], TRUE),
                            incorrect |-> pickOptionIdFromCard(rt.cards[i], FALSE)]]]
  /\ UNCHANGED OtherThanRt

(***************************************************************************)
(* The specifications: one per component, the others idle, and Spec, which *)
(* starts any one of them.                                                 *)
(***************************************************************************)
\* Every component but `c` is idle (not called).
IdleExcept(c) ==
  /\ c # "sel" => sel = SelIdle
  /\ c # "w" => w = WIdle
  /\ c # "quiz" => quiz = QuizIdle
  /\ c # "rnd" => rnd = RndIdle
  /\ c # "batch" => batch = BatchIdle
  /\ c # "twice" => twice = TwiceIdle
  /\ c # "dbg" => dbg = DbgIdle
  /\ c # "draft" => draft = DraftIdle
  /\ c # "fan" => fan = PoolIdle
  /\ c # "walk" => walk = WalkIdle
  /\ c # "via" => via = ViaIdle
  /\ c # "memo" => memo = MemoIdle
  /\ c # "emap" => emap = EmapIdle
  /\ c # "env" => env = EnvIdle
  /\ c # "refx" => refx = RefIdle
  /\ c # "pub" => pub = PubIdle
  /\ c # "own" => own = OwnIdle
  /\ c # "kick" => kick = KickIdle
  /\ c # "gen" => gen = GenIdle
  /\ c # "fx" => fx = FetchIdle
  /\ c # "rt" => rt = RtIdle

SelStart == SelInit /\ IdleExcept("sel")
SelNext == SelCall
SpecSel == SelStart /\ [][SelNext]_vars

WaitStart == WInit /\ IdleExcept("w")
WaitNext == WaitTest \/ WaitPoll \/ WaitKickoff \/ WaitSleep
SpecWait == WaitStart /\ [][WaitNext]_vars

QuizStart == QuizInit /\ IdleExcept("quiz")
QuizNext ==
  \/ QuizEntry \/ QuizList \/ QuizListSleep \/ QuizGetCard \/ QuizPatch
  \/ QuizCardComplete \/ QuizComplete \/ QuizFetch \/ QuizScoreSleep
  \/ LessonComplete \/ LessonFetch
SpecQuiz == QuizStart /\ [][QuizNext]_vars

RndStart == RndInit /\ IdleExcept("rnd")
RndNext == RndCompute
SpecRound == RndStart /\ [][RndNext]_vars

BatchStart == BatchInit /\ IdleExcept("batch")
BatchNext == BatchLesson \/ BatchLessonsDone \/ BatchQuiz \/ BatchUserDone \/ BatchRespond
SpecBatch == BatchStart /\ [][BatchNext]_vars

TwiceStart == TwiceInit /\ IdleExcept("twice")
TwiceNext == TwiceCall
SpecTwice == TwiceStart /\ [][TwiceNext]_vars

DbgStart == DbgInit /\ IdleExcept("dbg")
DbgNext == DbgCall
SpecDbg == DbgStart /\ [][DbgNext]_vars

DraftStart == DraftInit /\ IdleExcept("draft")
DraftNext == DraftGenerate
SpecDraft == DraftStart /\ [][DraftNext]_vars

PoolStart == PoolInit /\ IdleExcept("fan")
PoolNext == PoolSpawn \/ PoolSettle
SpecPool == PoolStart /\ [][PoolNext]_vars

WalkStart == WalkInit /\ IdleExcept("walk")
WalkNext == WalkGet \/ WalkAnswer
SpecWalk == WalkStart /\ [][WalkNext]_vars

ViaStart == ViaInit /\ IdleExcept("via")
ViaNext == ViaCall
SpecVia == ViaStart /\ [][ViaNext]_vars

MemoStart == MemoInit /\ IdleExcept("memo")
MemoNext == \E c \in 1..MaxCalls : MemoCall(c) \/ MemoSettle(c)
SpecMemo == MemoStart /\ [][MemoNext]_vars

EmapStart == EmapInit /\ IdleExcept("emap")
EmapNext == EmapStep \/ EmapDone
SpecEmap == EmapStart /\ [][EmapNext]_vars

EnvStart == EnvInit /\ IdleExcept("env")
EnvNext == EnvRead
SpecEnv == EnvStart /\ [][EnvNext]_vars

RefStart == RefInit /\ IdleExcept("refx")
RefNext == RefRead
SpecRef == RefStart /\ [][RefNext]_vars

PubStart == PubInit /\ IdleExcept("pub")
PubNext == PubCreate \/ PubCards \/ PubGet \/ PubPatch \/ PubItemsDone
SpecPub == PubStart /\ [][PubNext]_vars

OwnStart == OwnInit /\ IdleExcept("own")
OwnNext == OwnCall
SpecOwn == OwnStart /\ [][OwnNext]_vars

KickStart == KickInit /\ IdleExcept("kick")
KickNext == KickList \/ KickSettle
SpecKick == KickStart /\ [][KickNext]_vars

GenStart == GenInit /\ IdleExcept("gen")
GenNext == GenFact \/ GenFallback \/ GenReturn
SpecGen == GenStart /\ [][GenNext]_vars

FetchStart == FetchInit /\ IdleExcept("fx")
FetchNext == FetchAttempt \/ FetchTimer \/ FetchThrow
\* A fetch settles and a timer fires: the pending step of a call is taken.
SpecFetch == FetchStart /\ [][FetchNext]_vars /\ WF_vars(FetchNext)

RtStart == RtInit /\ IdleExcept("rt")
RtNext == RtBuild \/ RtRead
SpecRt == RtStart /\ [][RtNext]_vars

Init == SelStart \/ WaitStart \/ QuizStart \/ RndStart \/ BatchStart \/ TwiceStart \/ DbgStart \/ DraftStart \/ PoolStart \/ WalkStart \/ ViaStart \/ MemoStart \/ EmapStart \/ EnvStart \/ RefStart \/ PubStart \/ OwnStart \/ KickStart \/ GenStart \/ FetchStart \/ RtStart
Next == SelNext \/ WaitNext \/ QuizNext \/ RndNext \/ BatchNext \/ TwiceNext \/ DbgNext \/ DraftNext \/ PoolNext \/ WalkNext \/ ViaNext \/ MemoNext \/ EmapNext \/ EnvNext \/ RefNext \/ PubNext \/ OwnNext \/ KickNext \/ GenNext \/ FetchNext \/ RtNext
Spec == Init /\ [][Next]_vars

(***************************************************************************)
(* Properties of the reconciliation loop (SpecWait).                       *)
(***************************************************************************)
Elapsed == w.now - w.start

\* C1: in one call of waitForEnrollments the invitation kickoff is fired at most
\* once, whatever the polls return; it is fired (after the first poll) when a
\* course id is known and the first poll is empty, never again on a later empty
\* poll, and never when no course id is known.
C1_KickoffOneShot ==
  /\ w.kicks <= 1
  /\ ~Truthy(w.courseId) => w.kicks = 0
  /\ (Truthy(w.courseId) /\ w.firstPoll.res = "empty") => (w.kicks = 1 /\ w.kickAfterPoll = 1)
  /\ w.kicks = 1 => (w.kickAfterPoll = 1 /\ w.firstPoll.res # "nonempty")

\* Three polls, all empty, with a course id: the kickoff was fired once.
C1_Witness ==
  /\ Truthy(w.courseId) /\ w.polls >= 3 /\ w.nonEmptyPolls = 0 /\ w.failedPolls = 0
  /\ w.kicks = 1

\* C2: if the first poll returns a non-empty result, waitForEnrollments returns
\* exactly that result after that single poll: no second poll, no sleep, no
\* kickoff.
C2_FirstPollFound ==
  w.firstPoll.res = "nonempty" =>
    /\ w.pc = "done" /\ ~w.raised /\ w.phase = "FOUND"
    /\ w.returned = w.firstPoll.enrollments
    /\ w.polls = 1 /\ w.sleeps = 0 /\ w.kicks = 0

C2_Witness ==
  /\ w.pc = "done" /\ Truthy(w.courseId) /\ w.firstPoll.res = "nonempty"
  /\ Len(w.returned) = 1

\* C3 as stated: waitForEnrollments returns within timeoutMs + pollMs of elapsed
\* time, the time inside the polls and the kickoff counted.
C3_ReturnsWithinBudgetPlusPoll ==
  w.pc = "done" => Elapsed <= w.timeoutMs + w.pollMs

\* C3 as amended: the last poll starts before timeoutMs has elapsed, and the call
\* returns no later than pollMs after it plus the time spent inside that poll,
\* inside the kickoff fired on that tick and the lateness of that tick's sleep
\* (so within timeoutMs + pollMs only when these take no time); with no poll at
\* all it returns at once.
C3_ReturnsWithinBudgetPlusLastTick ==
  w.pc = "done" =>
    IF w.polls = 0 THEN Elapsed = 0
    ELSE /\ w.lastPollAt < w.timeoutMs
         /\ Elapsed <= w.lastPollAt + w.tick.poll + w.tick.kick + w.pollMs + w.tick.late
         /\ Elapsed < w.timeoutMs + w.pollMs + w.tick.poll + w.tick.kick + w.tick.late

\* Every poll empty, and the call returns later than timeoutMs + pollMs.
C3_Witness ==
  /\ w.pc = "done" /\ w.phase = "TIMED_OUT" /\ w.polls >= 2
  /\ w.nonEmptyPolls = 0 /\ w.failedPolls = 0
  /\ Elapsed > w.timeoutMs + w.pollMs

\* C33: a call of waitForEnrollments that fired the invitation kickoff polls the
\* selector at least once more after the kickoff, before it returns.
C33_PollAfterKickoff ==
  (w.pc = "done" /\ w.kicks > 0) => w.pollsAfterKick >= 1

\* C4: no poll of the selector is started once the elapsed time is at least
\* timeoutMs (with timeoutMs <= 0 no poll is made and the empty list is
\* returned); the loop is in one of POLLING, FOUND, TIMED_OUT, it is POLLING
\* exactly while the call runs, and FOUND and TIMED_OUT are never left.
C4_NoPollAfterBudget ==
  /\ [](w.polls > 0 => w.lastPollAt < w.timeoutMs)
  /\ [](w.pc = "poll" => Elapsed < w.timeoutMs)
  /\ [](w.timeoutMs <= 0 =>
          /\ w.polls = 0
          /\ w.pc = "done" => (w.phase = "TIMED_OUT" /\ w.returned = <<>>))
  /\ [](/\ w.phase \in {"POLLING", "FOUND", "TIMED_OUT"}
        /\ w.phase = "POLLING" <=> w.pc # "done"
        /\ w.phase = "TIMED_OUT" => Elapsed >= w.timeoutMs)
  /\ [][w.phase \in {"FOUND", "TIMED_OUT"} => w'.phase = w.phase]_vars

\* The budget ran out after several polls.
C4_Witness ==
  /\ w.phase = "TIMED_OUT" /\ w.polls >= 2 /\ Elapsed >= w.timeoutMs

\* C5: waitForEnrollments never raises, whatever the selector and the kickoff do
\* on any tick; what it returns is non-empty only if some poll returned a
\* non-empty result, and is the empty list when the budget runs out.
C5_NeverRaises ==
  /\ ~w.raised
  /\ w.pc = "done" =>
       /\ w.phase \in {"FOUND", "TIMED_OUT"}
       /\ Len(w.returned) > 0 => w.nonEmptyPolls >= 1
       /\ w.phase = "TIMED_OUT" => (w.nonEmptyPolls = 0 /\ w.returned = <<>>)

\* A poll failed, the kickoff failed, and the call returned the empty list.
C5_Witness ==
  /\ w.pc = "done" /\ w.failedPolls >= 1 /\ w.failedKicks >= 1 /\ w.returned = <<>>

(***************************************************************************)
(* Properties of the best-effort selector (SpecSel).                       *)
(***************************************************************************)
\* Whether a strategy, run against the call's remote, yields a non-empty result.
Yields(name) ==
  CASE name = "via_course_enrollments" ->
         sel.remote.viaCourse.ok /\ Len(sel.remote.viaCourse.v) > 0
    [] name = "paged_unfiltered_local_filter" ->
         /\ sel.remote.courseEnrollments.ok /\ sel.remote.all.ok
         /\ Len(LocalFilter(sel.remote.courseEnrollments.v, sel.remote.all.v,
                            sel.learningItemIds)) > 0
    [] name = "bulk_filters" -> sel.remote.bulk.ok /\ Len(sel.remote.bulk.v) > 0
    [] OTHER ->
         \E i \in DOMAIN sel.learningItemIds :
           /\ Len(sel.remote.single[sel.learningItemIds[i]].v) > 0
           /\ \A j \in DOMAIN sel.learningItemIds : sel.remote.single[sel.learningItemIds[j]].ok

\* The strategies in priority order; the first two apply only with a course id.
StrategyOrder ==
  (IF Truthy(sel.courseId)
     THEN <<"via_course_enrollments", "paged_unfiltered_local_filter">> ELSE <<>>)
  \o <<"bulk_filters", "per_learning_item">>

\* C6: if a course id is known and the course-enrollment traversal yields a
\* non-empty set, the selector returns exactly that set under the strategy name
\* 'via_course_enrollments', and no other strategy is invoked.
C6_CourseTraversalWins ==
  (sel.pc = "done" /\ Truthy(sel.courseId) /\ Yields("via_course_enrollments")) =>
    /\ ~sel.result.raised
    /\ sel.result.enrollments = sel.remote.viaCourse.v
    /\ sel.result.strategy = "via_course_enrollments"
    /\ sel.result.attempted = <<"via_course_enrollments">>
    /\ sel.result.singleQueries = 0

\* The traversal wins although the bulk filter and the local filter would have
\* answered too.
C6_Witness ==
  /\ sel.pc = "done" /\ Truthy(sel.courseId) /\ Yields("via_course_enrollments")
  /\ Yields("bulk_filters") /\ Yields("paged_unfiltered_local_filter")
  /\ sel.result.strategy = "via_course_enrollments"

\* C7: the selector attempts the strategies in the fixed order (the first two
\* only with a course id), each at most once; a strategy is attempted only if no
\* strategy before it yielded a non-empty result; the strategy name returned is
\* that of the first strategy yielding a non-empty result, or the per-item
\* strategy if none did.
C7_FixedPriorityOrder ==
  sel.pc = "done" =>
    LET att == sel.result.attempted
    IN /\ Len(att) >= 1 /\ Len(att) <= Len(StrategyOrder)
       /\ att = SubSeq(StrategyOrder, 1, Len(att))
       /\ \A k \in DOMAIN att : \A j \in 1..(k - 1) : ~Yields(att[j])
       /\ ~sel.result.raised =>
            /\ sel.result.strategy = att[Len(att)]
            /\ \/ Yields(sel.result.strategy)
               \/ sel.result.strategy = "per_learning_item"
            /\ Yields(sel.result.strategy) => Len(sel.result.enrollments) > 0

\* All four strategies were attempted, in order, and the last one answered.
C7_Witness ==
  /\ sel.pc = "done" /\ ~sel.result.raised /\ Len(sel.result.attempted) = 4
  /\ Len(sel.result.enrollments) > 0

\* C8: the failure of any one strategy is treated as an empty result and is not
\* propagated: the selector does not raise, and the strategies after a failed
\* one are still attempted.
C8_StrategyFailureSwallowed ==
  sel.pc = "done" =>
    /\ ~sel.result.raised
    /\ (\E k \in DOMAIN sel.result.attempted :
          sel.result.attempted[k] = "bulk_filters" /\ ~sel.remote.bulk.ok)
         => \E k \in DOMAIN sel.result.attempted : sel.result.attempted[k] = "per_learning_item"

(***************************************************************************)
(* Properties of the quiz answering engine and the lesson driver           *)
(* (SpecQuiz), and of the desiredCorrect computation (SpecRound).          *)
(***************************************************************************)
\* C9: called with an absent (null or empty) enrollment id,
\* answerQuizByTargetPercent and completeLesson return a structured failure
\* (ok: false with an error reason) without any remote call and without
\* retrying (no sleep, no second attempt).
C9_AbsentEnrollmentFailsFast ==
  ~Truthy(quiz.learningItemEnrollmentId) =>
    /\ RemoteCalls(quiz.calls) = 0 /\ quiz.sleeps = 0 /\ quiz.attempt = 0
    /\ quiz.pc \in {"off", "entry", "done"}
    /\ quiz.pc = "done" =>
         /\ quiz.status = "returned"
         /\ quiz.result.ok = FALSE
         /\ "error" \in DOMAIN quiz.result
         /\ quiz.result.error = "No learning item enrollment found"

\* The quiz engine returned for an empty-string enrollment id.
C9_Witness ==
  /\ quiz.pc = "done" /\ quiz.op = "quiz" /\ quiz.learningItemEnrollmentId = ""
  /\ quiz.status = "returned"

\* round(p / 100 * n), a half going up, in exact arithmetic.
ExactRoundedShare(p, n) == (2 * p * n + 100) \div 200

\* C10: for every percentage p in 0..100 and every question count n >= 1,
\* desiredCorrect = round(p / 100 * n) (halves rounded up), 0 <= desiredCorrect
\* <= n; p = 0 gives 0, p = 100 gives n, and n = 5, p = 60 gives 3.
C10_DesiredCorrectIsRoundedShare ==
  rnd.pc = "done" =>
    /\ rnd.desiredCorrect = ExactRoundedShare(rnd.targetPercentCorrect, rnd.total)
    /\ 0 <= rnd.desiredCorrect /\ rnd.desiredCorrect <= rnd.total
    /\ rnd.targetPercentCorrect = 0 => rnd.desiredCorrect = 0
    /\ rnd.targetPercentCorrect = 100 => rnd.desiredCorrect = rnd.total
    /\ (rnd.total = 5 /\ rnd.targetPercentCorrect = 60) => rnd.desiredCorrect = 3

\* The position of a card enrollment in the listing getCardEnrollments returned.
ListingIndex(id) == CHOOSE k \in DOMAIN quiz.cardEnrollments : quiz.cardEnrollments[k].id = id

\* The rank of a question item among the question items, in listing order.
DiscoveryRank(id) ==
  Cardinality({j \in DOMAIN quiz.questionEntries :
                 ListingIndex(quiz.questionEntries[j].id) <= ListingIndex(id)})

\* The quiz engine has classified the card enrollments and planned the answers.
AnswersPlanned ==
  /\ quiz.op = "quiz"
  /\ quiz.pc \in {"patch", "cardComplete", "complete", "fetch", "scoreSleep", "done"}
  /\ quiz.stats.totalQuestions > 0

\* C11: the question items targeted as correct are exactly the first
\* desiredCorrect question items in discovery order (the order in which the
\* child enrollments were listed), the others are targeted as incorrect,
\* whatever the order in which the concurrent getCard fetches complete.
C11_CorrectAreFirstInListingOrder ==
  AnswersPlanned =>
    \A k \in DOMAIN quiz.answers :
      quiz.answers[k].chooseCorrect <=>
        DiscoveryRank(quiz.answers[k].ce) <= quiz.stats.desiredCorrect

\* C12: the option submitted for a question item has the targeted correctness;
\* an item whose content definition has no option of the targeted correctness
\* is not answered and is counted as option-not-found, and the call goes on.
C12_SubmittedOptionHasTargetedCorrectness ==
  AnswersPlanned =>
    /\ \A k \in DOMAIN quiz.answers :
         quiz.answers[k].isCorrect = quiz.answers[k].chooseCorrect
    /\ quiz.stats.answered = Len(quiz.answers)
    /\ quiz.pc \in {"complete", "fetch", "scoreSleep"} =>
         quiz.stats.answered + quiz.stats.optionNotFound = quiz.stats.totalQuestions

\* The quiz engine returned with no question item found, the enrollment id given.
NoQuestionFound ==
  /\ quiz.op = "quiz" /\ quiz.pc = "done" /\ quiz.status = "returned"
  /\ ~EnrollmentAbsent(quiz.learningItemEnrollmentId)
  /\ quiz.questionEntries = <<>>

\* C13: with zero question items answerQuizByTargetPercent returns ok: false with
\* a result that tells the case of no child enrollment at all from the case of
\* child enrollments none of which is a question (the count of listed child
\* enrollments in meta is 0 in the one, positive in the other), and it issues no
\* answer, card-completion or parent-completion call; it fails this way only
\* when no question item was found.
C13_NoQuestionFailureDistinguishes ==
  /\ NoQuestionFound =>
       /\ quiz.result.ok = FALSE
       /\ "meta" \in DOMAIN quiz.result
       /\ quiz.result.meta.cardEnrollments = Len(quiz.cardEnrollments)
       /\ quiz.result.meta.cardEnrollments = 0 <=> quiz.cardEnrollments = <<>>
       /\ quiz.result.meta.questionCards = 0
       /\ quiz.calls.patch = 0 /\ quiz.calls.cardComplete = 0 /\ quiz.calls.complete = 0
       /\ quiz.calls.fetch = 0 /\ quiz.answers = <<>>
  /\ (/\ quiz.op = "quiz" /\ quiz.pc = "done" /\ quiz.status = "returned"
      /\ ~EnrollmentAbsent(quiz.learningItemEnrollmentId)
      /\ quiz.result.ok = FALSE) => quiz.questionEntries = <<>>

\* Child enrollments were listed, none could be fetched as a card (no card id),
\* and the engine returned the no-question failure.
C13_Witness ==
  /\ NoQuestionFound /\ Len(quiz.cardEnrollments) > 0 /\ quiz.eligible = <<>>
  /\ quiz.result.meta.cardEnrollments > 0

\* The names of the per-call statistics.
StatsKeys ==
  {"totalQuestions", "desiredCorrect", "answered", "correctTargeted", "optionNotFound"}

\* C14: every result answerQuizByTargetPercent returns (success, no-enrollment
\* failure, no-question failure) includes the per-call statistics.
C14_ResultAlwaysHasStats ==
  (quiz.op = "quiz" /\ quiz.pc = "done" /\ quiz.status = "returned") =>
    /\ "meta" \in DOMAIN quiz.result
    /\ StatsKeys \subseteq DOMAIN quiz.result.meta


\* The positions of the calls named `call` in the trace of remote mutations.
TraceOf(call) == {k \in DOMAIN quiz.trace : quiz.trace[k].call = call}

\* C25: the PATCH of an answered item comes before the completion call for that
\* item; a rejected completion call is ignored, the item staying answered and the
\* run going on to the next item or to the parent; the parent enrollment is
\* marked complete at most once, after every question item was answered or
\* skipped, and once in every run that returns ok.
C25_AnswerThenCompleteThenParent ==
  quiz.op = "quiz" =>
    /\ \A k \in TraceOf("cardComplete") :
         /\ k > 1
         /\ quiz.trace[k - 1] = [call |-> "patch", id |-> quiz.trace[k].id]
         /\ \E a \in DOMAIN quiz.answers : quiz.answers[a].ce = quiz.trace[k].id
         /\ (k = Len(quiz.trace) /\ ~quiz.lastOk) =>
              quiz.status = "running" /\ quiz.pc \in {"patch", "complete"}
    /\ quiz.stats.answered =
         Cardinality({k \in TraceOf("patch") : k < Len(quiz.trace) \/ quiz.lastOk})
    /\ Cardinality(TraceOf("complete")) <= 1
    /\ \A k \in TraceOf("complete") :
         /\ k = Len(quiz.trace)
         /\ quiz.i > Len(quiz.questionEntries)
         /\ quiz.stats.answered + quiz.stats.optionNotFound = quiz.stats.totalQuestions
    /\ (quiz.status = "returned" /\ quiz.result.ok) => Cardinality(TraceOf("complete")) = 1

\* The completion call of the second of two answered items was rejected, and the
\* run goes on to mark the parent enrollment complete.
C25_Witness ==
  /\ quiz.op = "quiz"
  /\ quiz.pc = "complete"
  /\ quiz.stats.answered = 2
  /\ quiz.trace[Len(quiz.trace)].call = "cardComplete"
  /\ ~quiz.lastOk


\* C35: in every result with ok = true of answerQuizByTargetPercent the
\* statistics satisfy answered + optionNotFound = totalQuestions,
\* correctTargeted <= answered, correctTargeted <= desiredCorrect and
\* 0 <= desiredCorrect <= totalQuestions, and the number of answers sent to the
\* remote (PATCH requests) is `answered`.
C35_StatsAddUp ==
  (quiz.op = "quiz" /\ quiz.status = "returned" /\ quiz.result.ok) =>
    LET m == quiz.result.meta
    IN /\ m.answered + m.optionNotFound = m.totalQuestions
       /\ m.correctTargeted <= m.answered
       /\ m.correctTargeted <= m.desiredCorrect
       /\ 0 <= m.desiredCorrect /\ m.desiredCorrect <= m.totalQuestions
       /\ quiz.calls.patch = m.answered
       /\ Len(quiz.answers) = m.answered

\* An ok result in which one question had no option to submit while correct
\* answers were still due, and another was answered.
C35_Witness ==
  /\ quiz.op = "quiz" /\ quiz.status = "returned" /\ quiz.result.ok
  /\ quiz.result.meta.optionNotFound >= 1
  /\ quiz.result.meta.answered >= 1
  /\ quiz.result.meta.correctTargeted < quiz.result.meta.desiredCorrect

\* A record whose score or percentage is a number greater than zero.
HasPositiveScore(e) ==
  \/ e.score.num /\ e.score.v > 0
  \/ e.percentCorrect.num /\ e.percentCorrect.v > 0

\* C26: after marking the parent enrollment complete the quiz engine fetches it at
\* most ScoreAttempts + 1 times, fetches again only while the record observed has
\* no positive score or percentage, and returns ok with the last record observed,
\* settled or not.
C26_ScorePollBounded ==
  quiz.op = "quiz" =>
    /\ quiz.calls.fetch <= ScoreAttempts + 1
    /\ quiz.calls.fetch > 0 => quiz.calls.complete = 1
    /\ (quiz.pc \in {"scoreSleep", "fetch"} /\ quiz.calls.fetch > 0) =>
         ~HasPositiveScore(quiz.finalEnrollment)
    /\ (quiz.status = "returned" /\ quiz.calls.complete = 1) =>
         /\ quiz.result.ok
         /\ quiz.result.finalEnrollment = quiz.finalEnrollment
         /\ HasPositiveScore(quiz.finalEnrollment) \/ quiz.calls.fetch = ScoreAttempts + 1

\* A quiz answered for a target of 0% whose score never settled: eleven fetches,
\* and ok with the record last observed.
C26_Witness ==
  /\ quiz.op = "quiz"
  /\ quiz.targetPercentCorrect = 0
  /\ quiz.status = "returned" /\ quiz.result.ok
  /\ quiz.calls.fetch = ScoreAttempts + 1
  /\ quiz.sleeps >= ScoreAttempts
  /\ ~HasPositiveScore(quiz.result.finalEnrollment)


\* C27: the quiz engine lists the child card enrollments at most CardListAttempts
\* times and not again after a non-empty listing; when every one of the
\* CardListAttempts listings was empty it does not raise, it returns the
\* no-question-cards failure.
C27_CardListingBounded ==
  quiz.op = "quiz" =>
    /\ quiz.calls.list <= CardListAttempts
    /\ Len(quiz.cardEnrollments) > 0 => quiz.pc \notin {"list", "listSleep"}
    /\ (quiz.calls.complete = 0 /\ quiz.sleeps >= CardListAttempts) =>
         /\ quiz.calls.list = CardListAttempts
         /\ quiz.status = "returned"
         /\ ~quiz.result.ok
         /\ quiz.result.error
              = "No question card enrollments found (only non-question cards present)"
         /\ quiz.result.meta.cardEnrollments = 0
         /\ RemoteCalls(quiz.calls) = CardListAttempts

\* Ten empty listings, then the no-question-cards failure.
C27_Witness ==
  /\ quiz.op = "quiz"
  /\ quiz.calls.list = CardListAttempts
  /\ quiz.sleeps = CardListAttempts
  /\ quiz.status = "returned"
  /\ ~quiz.result.ok


\* The card's content parses and holds a block of type multipleChoice or trueFalse.
HasQuestionTypeBlock(cardId) ==
  LET json == CardDefs(cardId).json
  IN /\ json.form # "invalid"
     /\ \E i \in DOMAIN json.contentBlocks :
          json.contentBlocks[i].type \in {"multipleChoice", "trueFalse"}

\* The card behind the card enrollment named id in the listing.
CardOf(id) ==
  LET k == CHOOSE j \in DOMAIN quiz.cardEnrollments : quiz.cardEnrollments[j].id = id
  IN quiz.cardEnrollments[k].cardId

\* C28: a card is taken for a question only if its content holds a block of a
\* recognized question type; any other card is left out of the question count
\* and is never answered.
C28_QuestionIffQuestionBlock ==
  quiz.op = "quiz" =>
    /\ \A k \in DOMAIN quiz.questionEntries :
         HasQuestionTypeBlock(quiz.questionEntries[k].cardId)
    /\ quiz.stats.totalQuestions
         <= Cardinality({k \in DOMAIN quiz.eligible :
                           HasQuestionTypeBlock(quiz.eligible[k].cardId)})
    /\ \A a \in DOMAIN quiz.answers : HasQuestionTypeBlock(CardOf(quiz.answers[a].ce))

(***************************************************************************)
(* Properties of the batch simulation (SpecBatch).                         *)
(***************************************************************************)
\* C15: the batch simulation always completes with a result entry for every
\* user: a remote failure of a single answer, completion or fetch call for one
\* user/item is not propagated as an exception and does not keep the remaining
\* items and users from being processed.
C15_BatchAlwaysCompletes ==
  batch.pc = "done" =>
    /\ batch.response = "json"
    /\ batch.rejected = 0
    /\ Len(batch.perUserResults) = batch.users
    /\ \A k \in DOMAIN batch.perUserResults : batch.perUserResults[k].userId = k
(***************************************************************************)
(* Properties of completeLesson called twice (SpecTwice).                  *)
(***************************************************************************)
\* C16: calling completeLesson twice on the same, already-completed enrollment
\* does not fail: each call issues one completion call followed by one fetch and
\* returns ok: true with the enrollment id and the settled record, the two
\* results being of the same shape, and equal when the remote record did not
\* change.
C16_CompleteLessonTwice ==
  (/\ twice.pc = "done" /\ ~EnrollmentAbsent(twice.learningItemEnrollmentId)
   /\ twice.completed) =>
    /\ \A k \in 1..2 :
         /\ ~twice.outcomes[k].raised
         /\ twice.outcomes[k].posts = 1 /\ twice.outcomes[k].gets = 1
         /\ twice.outcomes[k].result.ok
         /\ DOMAIN twice.outcomes[k].result =
              {"ok", "learningItemEnrollmentId", "finalEnrollment"}
         /\ twice.outcomes[k].result.finalEnrollment = twice.records[k]
    /\ twice.records[1] = twice.records[2] =>
         twice.outcomes[1].result = twice.outcomes[2].result
(***************************************************************************)
(* Properties of the diagnostics (SpecDbg).                                *)
(***************************************************************************)
AllFiveStrategies ==
  <<"bulk_filters", "per_learning_item", "recent_unfiltered",
    "paged_unfiltered_local_filter", "via_course_enrollments">>

\* Whether a strategy of the diagnostics fails against the call's remote.
DbgFails(name) ==
  CASE name = "bulk_filters" -> ~dbg.remote.bulk.ok
    [] name = "per_learning_item" ->
         \E i \in DOMAIN dbg.learningItemIds :
           i <= PerItemCap /\ ~dbg.remote.single[dbg.learningItemIds[i]].ok
    [] name = "recent_unfiltered" -> ~dbg.remote.recent.ok
    [] name = "paged_unfiltered_local_filter" -> ~dbg.remote.all.ok
    [] OTHER -> ~dbg.remote.viaCourse.ok

C18_AtLeastFiveCardsAndQuestions ==
  /\ Len(generateLessonCards(draft.summary, draft.extractText, MinCards)) >= 5
  /\ Len(generateQuizQuestions(draft.extractText, MinQuestions)) >= 5
  /\ (draft.pc = "done" /\ ~draft.raised) =>
       /\ Len(draft.lessons) = draft.lessonsCount
       /\ Len(draft.quizzes) = draft.quizzesCount
       /\ \A i \in DOMAIN draft.lessons : Len(draft.lessons[i]) >= 5
       /\ \A i \in DOMAIN draft.quizzes : Len(draft.quizzes[i]) >= 5

\* A draft with lessons and quizzes from a text with no paragraph of 60
\* characters and no definitional sentence: the cards and questions are padded.
C18_Witness ==
  /\ draft.pc = "done" /\ ~draft.raised
  /\ Len(draft.lessons) = 2 /\ Len(draft.quizzes) = 2
  /\ \A i \in DOMAIN draft.extractText : draft.extractText[i] = "short"
  /\ draft.lessons[1][Len(draft.lessons[1])] = "review"
  /\ draft.quizzes[1][1] = "fallback"
(***************************************************************************)
(* Properties of the worker pool (SpecPool).                              *)
(***************************************************************************)
\* C19: at every moment of a fan-out through _mapWithConcurrency(items, 10,
\* mapper) at most 10 mapper calls are in flight, for every number of items and
\* every order of completion (in general at most max(1, concurrency)).
C19_AtMostTenInFlight ==
  /\ Cardinality(fan.inflight) <= Max(1, fan.concurrency)
  /\ fan.peak <= Max(1, fan.concurrency)
  /\ fan.concurrency = 10 => (Cardinality(fan.inflight) <= 10 /\ fan.peak <= 10)
  /\ fan.inflight \subseteq 1..fan.items
  /\ fan.mapped + Cardinality(fan.inflight) <= fan.items

\* More than 10 items with concurrency 10: ten calls were in flight at once and
\* every item was mapped.
C19_Witness ==
  /\ fan.pc = "done" /\ fan.concurrency = 10 /\ fan.items > 10
  /\ fan.peak = 10 /\ fan.mapped = fan.items

\* C39 as stated: the mapper is invoked exactly once for every index, each
\* result is stored at the index of its item, and the promise resolves only
\* after every worker has stopped.
C39_EveryIndexExactlyOnce ==
  /\ \A k \in DOMAIN fan.results : fan.invoked[k] <= 1 /\ fan.results[k] \in {0, k}
  /\ fan.promise = "resolved" => (fan.inflight = {} /\ fan.workers = 0)
  /\ fan.pc = "done" => \A k \in DOMAIN fan.invoked : fan.invoked[k] = 1

\* C39, amended: no index is taken twice, and every index is taken once when no
\* mapper call fails (a rejected mapper call ends its worker, and the indices no
\* remaining worker takes are never mapped); each result is stored at the index of
\* its item, for every completion order; with no failure the promise resolves
\* only after every worker has stopped, every result being stored.
C39_IndexOnceResultsInPlace ==
  /\ \A k \in DOMAIN fan.results :
       /\ fan.invoked[k] <= 1
       /\ fan.results[k] \in {0, k}
       /\ fan.results[k] = k => fan.invoked[k] = 1
  /\ fan.promise = "resolved" =>
       /\ fan.inflight = {} /\ fan.workers = 0 /\ ~fan.rejected
       /\ \A k \in DOMAIN fan.results : fan.invoked[k] = 1 /\ fan.results[k] = k
  /\ (fan.pc = "done" /\ ~fan.rejected) => fan.promise = "resolved"
  /\ fan.rejected <=> fan.promise = "rejected"

\* Every mapper call resolved, the later items before the earlier ones: a result
\* was stored behind an empty slot, and in the end all are in place.
C39_Witness ==
  /\ fan.items >= 3 /\ fan.concurrency = 10 /\ ~fan.rejected
  /\ fan.results[1] = 0 /\ fan.results[2] = 0 /\ fan.results[3] = 3

(***************************************************************************)
(* The per-item strategy of the selector (SpecSel).                        *)
(***************************************************************************)
\* C20: the per-item strategy inside listEnrollmentsBestEffort issues one query
\* per learning-item id for a bounded prefix of the id list only: the number of
\* per-item queries of one call is at most a fixed cap (20, the cap of the
\* diagnostics), whatever the length of learningItemIds.
C20_PerItemQueriesCapped ==
  sel.pc = "done" =>
    /\ sel.result.singleQueries <= PerItemCap
    /\ sel.result.singleQueries <= Len(sel.learningItemIds)

(***************************************************************************)
(* Properties of the paged walks (SpecWalk).                               *)
(***************************************************************************)
\* The records of the pages received, in page order, as the walker returns them.
RECURSIVE PagesInOrder(_, _)
PagesInOrder(walker, bodies) ==
  IF Len(bodies) = 0 THEN <<>>
  ELSE WalkBatch(walker, bodies[1]) \o PagesInOrder(walker, Tail(bodies))

\* C21: a paged walk requests pages 1, 2, ... consecutively and each page once,
\* never more than maxPages pages and no page after the first empty one, and what
\* it returns is the concatenation of the pages it received, in page order.
C21_PagedWalk ==
  /\ \A i \in DOMAIN walk.requested : walk.requested[i] = i
  /\ Len(walk.requested) <= walk.maxPages
  /\ \A i \in DOMAIN walk.bodies :
       Len(hydraMembers(walk.bodies[i])) = 0 =>
         walk.pc = "done" /\ i = Len(walk.requested)
  /\ (walk.pc = "done" /\ ~walk.raised) =>
       walk.out = PagesInOrder(walk.walker, walk.bodies)

\* A walk of up to three pages that ended at the empty second page with the first
\* page's records as its output.
C21_Witness ==
  /\ walk.pc = "done" /\ ~walk.raised
  /\ walk.maxPages = 3
  /\ walk.requested = <<1, 2>>
  /\ Len(hydraMembers(walk.bodies[2])) = 0
  /\ Len(walk.out) = 2

(***************************************************************************)
(* Properties of the course-enrollment traversal (SpecVia).                *)
(***************************************************************************)
\* The course enrollments the traversal works on, once the walks have answered.
ViaListed ==
  listCourseEnrollmentsBestEffort(via.courseId, via.userIds, via.remote.filtered,
                                  via.remote.unfiltered)

\* The entries owed to the course enrollment ce when its own fetches are taken
\* alone: its children, embedded or listed, that were fetched with a
\* learningItemId among the target items.
ViaOwed(ce) ==
  LET embedded == hydraMembers(ce.learningItemEnrollments)
      listing == via.remote.children[ce.id]
      refs == IF Len(embedded) > 0 THEN embedded
              ELSE IF listing.ok THEN listing.v ELSE <<>>
      rows == RowsOf(ce, refs)
      li(row) == Hydrate(row, via.remote.detail[row.learningItemEnrollmentId]).learningItemId
  IN {Ref(ce.userId, li(rows[i]), rows[i].learningItemEnrollmentId) :
        i \in {j \in DOMAIN rows :
                 /\ Truthy(li(rows[j]))
                 /\ (Len(via.learningItemIds) > 0 =>
                       \E k \in DOMAIN via.learningItemIds :
                         via.learningItemIds[k] = li(rows[j]))}}

\* C22: in the course-enrollment traversal the failure of one fetch (the listing
\* of one course enrollment's children, or the fetch of one child) is turned into
\* an empty or null result for that task only: the traversal does not fail, and
\* the children of the other course enrollments are in its mapped output.
C22_FetchFailureIsolated ==
  (via.pc = "done" /\ ~ViaListed.raised) =>
    /\ ~via.result.raised
    /\ \A i \in DOMAIN ViaListed.enrollments :
         LET ce == ViaListed.enrollments[i]
         IN (Truthy(ce.id) /\ Truthy(ce.userId)) =>
              \A r \in ViaOwed(ce) :
                \E k \in DOMAIN via.result.mapped : via.result.mapped[k] = r

(***************************************************************************)
(* Properties of the course-enrollment user cache (SpecMemo).              *)
(***************************************************************************)
\* C23: getCourseEnrollmentUserId memoizes: once a value is stored for an id the
\* entry never changes, and every call made after that returns it without a
\* remote fetch, whatever the interleaving of the calls.
C23_EntriesNeverChange ==
  /\ \A id \in MemoIds : memo.cache[id] = memo.first[id]
  /\ \A c \in 1..MaxCalls :
       memo.calls[c].hit =>
         ~memo.calls[c].fetched /\ memo.calls[c].result = memo.first[memo.calls[c].id].v

(***************************************************************************)
(* Properties of the enrollment lookup table (SpecEmap).                   *)
(***************************************************************************)
\* What a discovered enrollment says: its user (its own userId, or the user of its
\* course enrollment), its item and its enrollment id.
SaysUser(e) ==
  IF Truthy(e.userId) /\ Truthy(e.learningItemEnrollmentId) THEN e.userId
  ELSE UserOfCourseEnrollment(emap.ceUser, e.courseEnrollment)
SaysItem(e) == extractUuid(e.learningItemId)
SaysEnrollment(e) ==
  IF Truthy(e.userId) /\ Truthy(e.learningItemEnrollmentId)
  THEN e.learningItemEnrollmentId ELSE e.id

\* The occurrences of the pair (userId, li) in the list: the positions of the
\* enrollments with that user and item and an enrollment id.
Occurrences(userId, li) ==
  {k \in DOMAIN emap.enrollments :
     /\ SaysUser(emap.enrollments[k]) = userId
     /\ SaysItem(emap.enrollments[k]) = li
     /\ Truthy(SaysEnrollment(emap.enrollments[k]))}

\* C24: when the loop is over, the table holds an entry for every (user, item)
\* pair with an occurrence in the list, the enrollment id of the pair's last
\* occurrence, and no other entry.
C24_LastWriteWins ==
  emap.pc = "done" =>
    /\ \A userId \in {"u1", "u2"}, li \in {"U1", "U2"} :
         LET occ == Occurrences(userId, li)
             last == CHOOSE k \in occ : \A j \in occ : j <= k
         IN IF occ = {} THEN MapKey(userId, li) \notin DOMAIN emap.enrollmentMap
            ELSE /\ MapKey(userId, li) \in DOMAIN emap.enrollmentMap
                 /\ emap.enrollmentMap[MapKey(userId, li)]
                      = SaysEnrollment(emap.enrollments[last])
    /\ DOMAIN emap.enrollmentMap \subseteq
         {MapKey(userId, li) : userId \in {"u1", "u2"}, li \in {"U1", "U2"}}

\* A list in which the pair (u1, U1) occurs twice, once in each record shape, and
\* the table holds the later enrollment.
C24_Witness ==
  /\ emap.pc = "done"
  /\ Len(emap.enrollments) = 3
  /\ emap.enrollments[1].learningItemEnrollmentId = "e1"
  /\ emap.enrollments[3].id = "e5"
  /\ emap.enrollmentMap[MapKey("u1", "U1")] = "e5"

(***************************************************************************)
(* Properties of the collection readers (SpecEnv).                         *)
(***************************************************************************)
\* C29: whichever of the four envelope shapes (plain array, hydra:member, member,
\* flat named field) wraps the records, hydraMembers and listHydra return the
\* records in their order; for an absent body they return the empty list.
C29_EnvelopesNormalized ==
  env.pc = "done" =>
    /\ env.members = env.records
    /\ env.listed = env.records

(***************************************************************************)
(* Properties of the reference extractors (SpecRef).                       *)
(***************************************************************************)
\* C30: for every shape of a reference to an identifier (the raw id, an object
\* with `id`, an object with `@id` holding an IRI, an IRI string) the extractors
\* return that identifier, and for a value that names none they return null.
C30_SameIdForEveryShape ==
  refx.pc = "done" =>
    /\ refx.normalized = refx.id
    /\ refx.extracted = refx.id

\* C31: a reference string that holds a UUID is resolved to that UUID by each of
\* _normalizeUuidFromAnything, _extractIdFromRef and _extractIdFromIri, and a
\* string that holds none to its last non-empty path segment.
C31_UuidPreferredByEveryPath ==
  (refx.pc = "done" /\ refx.value.type = "string" /\ ~Falsy(refx.value)) =>
    LET uuid == FirstUuid(refx.value.segs)
        want == IF uuid # Null THEN uuid ELSE _extractIdFromIri(refx.value.segs)
    IN /\ refx.normalized = want
       /\ refx.extracted = want
       /\ refx.fromIri = want

(***************************************************************************)
(* Properties of publishDraft (SpecPub).                                   *)
(***************************************************************************)
PubCallsOf(op, k) == {i \in DOMAIN pub.calls : pub.calls[i].op = op /\ pub.calls[i].k = k}

\* C32: every learning item is created in state 'draft'; a publish request (the
\* GET or the PATCH of publishLearningItem) for an item is sent only when
\* publishing is asked for and only after the item and then its cards were
\* created; a rejected PATCH is recorded as the item's `published` and the loop
\* goes on: publishDraft is never left because of it.
C32_CardsBeforePublish ==
  /\ \A i \in DOMAIN pub.calls :
       LET c == pub.calls[i]
       IN /\ c.op = "createItem" => c.state = "draft"
          /\ c.op \in {"getItem", "patchItem"} =>
               /\ shouldPublishItems(pub.learningItemState, pub.autoPublishLearningItems)
               /\ \E a \in PubCallsOf("createItem", c.k), b \in PubCallsOf("createCards", c.k) :
                    a < b /\ b < i /\ pub.calls[a].ok /\ pub.calls[b].ok
          /\ (c.op = "patchItem" /\ ~c.ok) =>
               /\ \E r \in DOMAIN pub.created :
                    pub.created[r].k = c.k /\ pub.created[r].published = "failed"
               /\ c.k < pub.lessons + pub.quizzes =>
                    (i < Len(pub.calls) \/ pub.pc = "create")
  /\ pub.pc = "failed" =>
       pub.calls[Len(pub.calls)].op \in {"createItem", "createCards"}
  /\ pub.pc = "users" =>
       /\ Len(pub.created) = pub.lessons + pub.quizzes
       /\ \A k \in DOMAIN pub.created : pub.created[k].k = k

\* A rejected PATCH of the first of several items, and all items handled.
C32_Witness ==
  /\ pub.pc = "users"
  /\ pub.lessons + pub.quizzes >= 2
  /\ pub.created[1].published = "failed"
  /\ pub.created[2].published = "patched"

(***************************************************************************)
(* Properties of the selector against a store (SpecOwn).                   *)
(***************************************************************************)
\* The user an enrollment of the result belongs to: its userId, or the user of
\* the course enrollment it refers to.
OwnerOf(e) ==
  IF "userId" \in DOMAIN e THEN e.userId
  ELSE StoreUserOf(_extractIdFromIri(e.courseEnrollment))

Returned == {own.result.enrollments[i] : i \in DOMAIN own.result.enrollments}

\* C34 as stated: every enrollment the selector returns is of a requested
\* learning item and of a requested user, whichever strategy produced it.
C34_EveryEnrollmentRequested ==
  (own.pc = "done" /\ ~own.result.raised) =>
    \A e \in Returned :
      /\ e.learningItemId \in Members(own.learningItemIds)
      /\ OwnerOf(e) \in Members(own.userIds)

\* C34, amended: against a remote that honours its filters, every enrollment
\* returned for a non-empty learningItemIds is of a requested learning item, and
\* every enrollment returned for a non-empty userIds by a strategy other than the
\* per-item filter is of a requested user; the per-item filter sends no user
\* filter and returns the enrollments of every user.
C34_RequestedItemsAndFilteredUsers ==
  (own.pc = "done" /\ ~own.result.raised) =>
    /\ \A e \in Returned :
         /\ Len(own.learningItemIds) > 0 => e.learningItemId \in Members(own.learningItemIds)
         /\ (Len(own.userIds) > 0 /\ own.result.strategy # "per_learning_item") =>
              OwnerOf(e) \in Members(own.userIds)
    /\ own.result.strategy = "per_learning_item" =>
         Returned = {e \in Members(StoreQuery(own.held, {}, {})) :
                       e.learningItemId \in Members(own.learningItemIds)}

\* The per-item filter returns an enrollment of a user who was not asked for.
C34_Witness ==
  /\ own.pc = "done" /\ own.result.strategy = "per_learning_item"
  /\ own.userIds = <<"u1">>
  /\ \E e \in Returned : OwnerOf(e) = "u2" /\ e.learningItemId \in Members(own.learningItemIds)

(***************************************************************************)
(* Properties of the invitation kickoff (SpecKick).                        *)
(***************************************************************************)
\* The invitation ids the course enrollment ce carries.
InvitationsOf(ce) ==
  IF ce.invitations.isArray
  THEN {_extractIdFromRef(ce.invitations.items[i]) : i \in DOMAIN ce.invitations.items} \ {Null}
  ELSE {}

\* C36: one kickoff posts the enroll request at most once per (invitation id,
\* user id) pair, only for listed course enrollments of the requested users that
\* carry the invitation, with at most 10 requests in flight; a rejected request
\* does not stop the others, and `attempted` is the number of distinct pairs.
C36_OncePerRequestedPair ==
  /\ \A a, b \in DOMAIN kick.sent : kick.sent[a] = kick.sent[b] => a = b
  /\ \A a \in DOMAIN kick.sent :
       /\ kick.sent[a].enrollUserId \in Members(kick.userIds)
       /\ \E i \in DOMAIN kick.walked :
            /\ kick.walked[i].userId = kick.sent[a].enrollUserId
            /\ kick.sent[a].invitationId \in InvitationsOf(kick.walked[i])
  /\ Cardinality(kick.inflight) <= 10
  /\ (kick.pc = "done" /\ ~kick.raised) =>
       /\ kick.attempted = Cardinality(Members(kick.sent))
       /\ Len(kick.sent) = kick.attempted
       /\ \A i \in DOMAIN kick.walked :
            kick.walked[i].userId \in Members(kick.userIds) =>
              \A inv \in InvitationsOf(kick.walked[i]) :
                [invitationId |-> inv, enrollUserId |-> kick.walked[i].userId]
                  \in Members(kick.sent)

(***************************************************************************)
(* Properties of generateQuizQuestions (SpecGen).                          *)
(***************************************************************************)
\* C37: in every question pushed by generateQuizQuestions, the fallback
\* questions included, correctIndex is an index into options and the option at
\* correctIndex is the true statement (the predicate of the fact, or the
\* affirmative fallback statement), for every outcome of the shuffles.
C37_CorrectIndexIsTruth ==
  gen.last.kind # "none" =>
    /\ gen.last.correctIndex \in 0..(Len(gen.last.options) - 1)
    /\ gen.last.options[gen.last.correctIndex + 1] = gen.last.truth

(***************************************************************************)
(* Properties of fetchWithRetry (SpecFetch).                               *)
(***************************************************************************)
\* C38: fetchWithRetry calls fetch at most retries + 1 times (4 with the default
\* retries); it returns the first response whose status is neither 429 nor 503
\* and calls fetch no more after it; when every attempt ends in a network error
\* or a 429 or 503 it raises an error after the last attempt; every call ends.
C38_BoundedRetry ==
  /\ [](/\ fx.calls <= fx.retries + 1
        /\ fx.retries = DefaultRetries => fx.calls <= 4
        /\ fx.good <= 1
        /\ fx.good = 1 => (fx.result = "returned" /\ fx.calls = fx.callsAtReturn
                           /\ fx.status \notin {429, 503})
        /\ fx.result = "returned" => fx.good = 1
        /\ fx.result = "raised" => (fx.good = 0 /\ fx.calls = fx.retries + 1)
        /\ (fx.pc = "done" /\ fx.good = 0) => fx.result = "raised")
  /\ (fx.pc = "loop") ~> (fx.pc = "done")

\* With the default retries, four attempts that all failed, the last by a 503,
\* and the error raised.
C38_Witness ==
  /\ fx.pc = "done" /\ fx.result = "raised"
  /\ fx.retries = DefaultRetries /\ fx.calls = 4 /\ fx.status = 503

(***************************************************************************)
(* Properties of the round trip from publishing to answering (SpecRt).     *)
(***************************************************************************)
\* The options of the i-th card.
BuiltOptions(i) == rt.cards[i].json.contentBlocks[1].options

\* C40: every card built by toQuizCards from a question with at least two
\* options and a correctIndex that is an index of them has exactly one option
\* flagged correct, is a question card for isQuestionCard, and
\* pickOptionIdFromCard returns the id of the option at correctIndex when asked
\* for a correct option and the id of another option of the card when asked for
\* an incorrect one.
C40_BuiltCardsAnswerable ==
  rt.pc = "done" =>
    \A i \in DOMAIN rt.questions :
      LET q == rt.questions[i]
      IN (Len(q.options) >= 2 /\ q.correctIndex \in 0..(Len(q.options) - 1)) =>
           /\ Cardinality({k \in DOMAIN BuiltOptions(i) : BuiltOptions(i)[k].isCorrect}) = 1
           /\ rt.reads[i].isQuestion
           /\ rt.reads[i].correct = BuiltOptions(i)[q.correctIndex + 1].id
           /\ rt.reads[i].incorrect # rt.reads[i].correct
           /\ \E k \in DOMAIN BuiltOptions(i) : BuiltOptions(i)[k].id = rt.reads[i].incorrect

\* Two questions read from cards whose json is a string, the correct option of
\* the first being its first and that of the second its last.
C40_Witness ==
  /\ rt.pc = "done" /\ Len(rt.questions) = 2
  /\ rt.cards[1].json.form = "string"
  /\ Len(rt.questions[1].options) = 3 /\ rt.questions[1].correctIndex = 0
  /\ rt.questions[2].correctIndex = Len(rt.questions[2].options) - 1
  /\ rt.reads[1].correct = "Q1-0" /\ rt.reads[1].incorrect = "Q1-1"
  /\ rt.reads[2].incorrect = "Q2-0"

====
